---- MODULE Spec2Model ----
(***************************************************************************)
(* Model of the expo-ble-peripheral native modules:                        *)
(*   android/.../ExpoBlePeripheralModule.kt  (platform = "android")        *)
(*   ios/ExpoBlePeripheralModule.swift       (platform = "ios")            *)
(*   unnamed/part_001, an earlier revision of the Kotlin module            *)
(*                                           (platform = "android_old")    *)
(* SpecAdv models the advertising controller (start / stop and the         *)
(* platform callbacks); SpecGatt the plain read and write handlers;        *)
(* SpecPrepared, SpecQueue and SpecPair the Kotlin prepared-write map      *)
(* (one request id, more ids than its capacity, two ids); SpecPeers the    *)
(* connection callback and updateCharacteristic; SpecStore the service     *)
(* store functions and the lookups by uuid; SpecRace a write callback      *)
(* taken step by step against updateCharacteristic on another thread;      *)
(* SpecDesc the Kotlin descriptor callbacks next to the characteristic     *)
(* ones; SpecAdvLive the Swift advertising controller under a platform     *)
(* that answers every start call it was handed.                            *)
(***************************************************************************)
EXTENDS Integers, Sequences, FiniteSets, TLC

VARIABLES
  platform,                \* which native module is running
  sdkO,                    \* Build.VERSION.SDK_INT >= Build.VERSION_CODES.O
  state,                   \* the module's cached BleState
  isAdvertising,           \* Kotlin: private var isAdvertising
  advertisingCallback,     \* Kotlin: AdvertiseCallback? (0 = null, else the call that made it)
  advertisingSetCallback,  \* Kotlin: AdvertisingSetCallback? (0 = null)
  gattServer,              \* Kotlin: BluetoothGattServer? (0 = null, else the call that opened it)
  openServers,             \* GATT servers opened by openGattServer and not closed
  devices,                 \* Kotlin: HashSet<BluetoothDevice>
  manager,                 \* Swift: CBPeripheralManager? (FALSE = nil)
  startAdvertisingPromise, \* Swift: managerDelegate.startAdvertisingPromise (0 = nil)
  managerIsAdvertising,    \* Swift: manager.isAdvertising (platform owned)
  calls,                   \* one record per accepted start-advertising call
  last,                    \* the operation that produced this state, with the state before it
  values,                  \* characteristic or descriptor -> stored value (Nil = null / nil)
  uuid,                    \* characteristic or descriptor -> its uuid (no uniqueness is checked)
  preparedCharacteristicWrites, \* Kotlin: LruCache, least recently used first
  added,                   \* request ids of the pending entries, earliest added first
  evicted,                 \* entries the cache trimmed, until their id is staged again
  stagedBy,                \* pending request id -> the device whose fragment opened it
  servicesMap,             \* service uuid -> the service (isPrimary, characteristics)
  hashSeed,                \* Swift: the order in which this process iterates a Dictionary
  inflight,                \* the write callback a thread is in the middle of
  preparedDescriptorWrites \* Kotlin: LruCache of the pending descriptor writes

vars == <<platform, sdkO, state, isAdvertising, advertisingCallback,
          advertisingSetCallback, gattServer, openServers, devices, manager,
          startAdvertisingPromise, managerIsAdvertising, calls, last,
          values, uuid, preparedCharacteristicWrites, added, evicted, stagedBy,
          servicesMap, hashSeed, inflight, preparedDescriptorWrites>>

advVars == <<platform, sdkO, state, isAdvertising, advertisingCallback,
             advertisingSetCallback, gattServer, openServers, devices, manager,
             startAdvertisingPromise, managerIsAdvertising, calls>>

gattVars == <<values, uuid, preparedCharacteristicWrites, added, evicted, stagedBy,
              servicesMap, hashSeed, inflight, preparedDescriptorWrites>>

(***************************************************************************)
(* Bounds and value sets                                                   *)
(***************************************************************************)
MaxStarts == 2            \* accepted start-advertising calls per run
MaxEnabledCallbacks == 1  \* onAdvertisingEnabled deliveries per advertising set
MaxLen == 2               \* longest characteristic value and pending buffer
MaxFrags == 2             \* fragments accepted per pending prepared write
MaxRequestId == 1         \* request ids 1..MaxRequestId
MaxBatch == 2             \* write requests per iOS didReceiveWrite batch
MaxQueueId == 17          \* request ids 1..MaxQueueId of SpecQueue
PreparedCapacity == 16    \* LruCache(16)

BleState == {"Unknown", "Resetting", "Unsupported", "Unauthorized", "Off", "On"}
AdvertiseFailureCodes == {1, 3}   \* DATA_TOO_LARGE, ALREADY_STARTED
Devices == {"d1", "d2"}
\* BluetoothProfile.STATE_*
ConnectionStates == {"Disconnected", "Connecting", "Connected", "Disconnecting"}
Nil == <<-1>>                     \* null (Kotlin) / nil (Swift): no byte is negative
Chars == {"c1", "c2"}             \* characteristics in the store
UnknownChar == "cx"               \* a uuid no service holds
DistinctUuids == [c \in Chars |-> c]   \* every characteristic has a uuid of its own
SharedUuid == [c \in Chars |-> "c1"]   \* two services hold a characteristic of one uuid
\* Service uuids, and the store the request handlers are exercised on: one
\* primary service holding both characteristics
ServiceUuids == {"s1", "s2"}
\* The characteristic objects addCharacteristic may make
CharObjects == {"c1", "c2", "c3"}
OneService ==
  [u \in {"s1"} |-> [isPrimary |-> TRUE, listed |-> TRUE, characteristics |-> <<"c1", "c2">>]]
\* No write callback is under way
Idle == [pc |-> "idle", rid |-> 0, char |-> "", offset |-> 0, bytes |-> <<>>,
         slice |-> <<>>, requests |-> <<>>, chars |-> <<>>]
Byte == {1, 2}
Bytes(n) == UNION {[1..k -> Byte] : k \in 0..n}
Val == Bytes(MaxLen) \cup {Nil}
Offsets == 0..(MaxLen + 1)
RequestIds == 1..MaxRequestId

(***************************************************************************)
(* Advertising controller: shared helpers                                  *)
(***************************************************************************)
NewCall(mode, issued) ==
  [mode |-> mode, phase |-> IF issued THEN "issued" ELSE "none",
   stopped |-> FALSE, settles |-> 0, outcome |-> "pending", code |-> 0,
   enabledCbs |-> 0]

\* promise.resolve(...)
Resolve(c) ==
  [c EXCEPT !.settles = @ + 1,
            !.outcome = IF c.settles = 0 THEN "resolved" ELSE @]

\* promise.reject(CodedException("... failed: $status"))
Reject(c, status) ==
  [c EXCEPT !.settles = @ + 1,
            !.outcome = IF c.settles = 0 THEN "rejected" ELSE @,
            !.code = IF c.settles = 0 THEN status ELSE @]

\* The advertising flag the module reports through isAdvertising
Advertising ==
  IF platform = "ios" THEN manager /\ managerIsAdvertising ELSE isAdvertising

\* Start calls the platform has been asked to run and has not answered yet
AwaitingCallback ==
  {i \in 1..Len(calls) : calls[i].phase = "issued" /\ ~calls[i].stopped}

\* Platform advertisers started on behalf of the module and not stopped
LiveSessions ==
  {i \in 1..Len(calls) : calls[i].phase \in {"issued", "started"} /\ ~calls[i].stopped}

PlatformStartCalls == {i \in 1..Len(calls) : calls[i].phase # "none"}

\* The controller state of the specification's state machine
Phase ==
  IF Advertising THEN "Active"
  ELSE IF platform = "ios" /\ startAdvertisingPromise # 0 THEN "Starting"
  ELSE IF platform # "ios" /\ AwaitingCallback # {} THEN "Starting"
  ELSE "Idle"

\* Everything the advertising controller holds
Ctl ==
  [phase |-> Phase, adv |-> Advertising, cb |-> advertisingCallback,
   setcb |-> advertisingSetCallback, server |-> gattServer,
   slot |-> startAdvertisingPromise, ncalls |-> Len(calls),
   nplatform |-> Cardinality(PlatformStartCalls), awaiting |-> AwaitingCallback,
   state |-> state]

Op(op, id, result) == [op |-> op, id |-> id, result |-> result, pre |-> Ctl]

(***************************************************************************)
(* Android: AsyncFunction("start"), AsyncFunction("stop") and callbacks    *)
(***************************************************************************)
\* Mutant of AndroidStartResult: the radio state is not looked at
AndroidStartResult_NoRadioCheck ==
  IF isAdvertising THEN "AlreadyActive" ELSE "Accepted"

\* The guards of AsyncFunction("start") before anything is touched
AndroidStartResult ==
  IF state # "On" THEN "WrongRadioState"
  ELSE IF isAdvertising THEN "AlreadyActive"
  ELSE "Accepted"

\* args.preferAdvertisingSet && Build.VERSION.SDK_INT >= Build.VERSION_CODES.O
AndroidMode(prefer) == IF prefer /\ sdkO THEN "set" ELSE "legacy"

AndroidStart(prefer) ==
  /\ platform = "android"
  /\ LET res == AndroidStartResult
         id == Len(calls) + 1
         mode == AndroidMode(prefer)
     IN IF res # "Accepted"
        THEN /\ last' = Op("start", 0, res)
             /\ UNCHANGED <<isAdvertising, advertisingCallback, advertisingSetCallback,
                            gattServer, openServers, calls>>
        ELSE /\ Len(calls) < MaxStarts
             /\ gattServer' = id
             /\ openServers' = openServers \cup {id}
             /\ advertisingSetCallback' =
                  IF mode = "set" THEN id ELSE advertisingSetCallback
             /\ advertisingCallback' =
                  IF mode = "legacy" THEN id ELSE advertisingCallback
             /\ calls' = Append(calls, NewCall(mode, TRUE))
             /\ last' = Op("start", id, res)
             /\ UNCHANGED isAdvertising
  /\ UNCHANGED <<platform, sdkO, state, devices, manager, startAdvertisingPromise,
                 managerIsAdvertising>>
  /\ UNCHANGED gattVars

\* advertiser.stopAdvertising(cb) / stopAdvertisingSet(cb) for the handles held
StopHandles(cs, handles) ==
  [i \in 1..Len(cs) |->
     IF i \in handles THEN [cs[i] EXCEPT !.stopped = TRUE] ELSE cs[i]]

AndroidStop ==
  /\ platform = "android"
  /\ openServers' = openServers \ {gattServer}
  /\ gattServer' = 0
  /\ calls' = StopHandles(calls,
                ({advertisingCallback} \cup
                 (IF sdkO THEN {advertisingSetCallback} ELSE {})) \ {0})
  /\ advertisingCallback' = 0
  /\ advertisingSetCallback' = IF sdkO THEN 0 ELSE advertisingSetCallback
  /\ isAdvertising' = FALSE
  /\ devices' = {}
  /\ last' = Op("stop", 0, "resolved")
  /\ UNCHANGED <<platform, sdkO, state, manager, startAdvertisingPromise,
                 managerIsAdvertising>>
  /\ UNCHANGED gattVars

\* Mutant of CallbackFlag: a failure callback leaves the flag set
CallbackFlag_AlwaysSet(status) == TRUE

\* What a start callback with this status does to isAdvertising and the promise
CallbackFlag(status) == status = 0

CallbackSettle(c, status) ==
  IF status = 0 THEN Resolve(c) ELSE Reject(c, status)

\* AdvertiseCallback.onStartSuccess / onStartFailure,
\* AdvertisingSetCallback.onAdvertisingSetStarted
AndroidStartCallback(i, status) ==
  /\ platform = "android"
  /\ i \in 1..Len(calls)
  /\ calls[i].phase = "issued"
  /\ isAdvertising' = CallbackFlag(status)
  /\ calls' = [calls EXCEPT ![i] =
                 [CallbackSettle(@, status) EXCEPT
                    !.phase = IF status = 0 THEN "started" ELSE "failed"]]
  /\ last' = Op(IF calls[i].mode = "set" THEN "onAdvertisingSetStarted"
                ELSE IF status = 0 THEN "onStartSuccess" ELSE "onStartFailure",
                i, status)
  /\ UNCHANGED <<platform, sdkO, state, advertisingCallback, advertisingSetCallback,
                 gattServer, openServers, devices, manager, startAdvertisingPromise,
                 managerIsAdvertising>>
  /\ UNCHANGED gattVars

\* AdvertisingSetCallback.onAdvertisingEnabled: the platform reports that a
\* started set was enabled or (duration / maxExtendedAdvertisingEvents
\* reached) disabled
OnAdvertisingEnabled(i, enable, status) ==
  /\ platform = "android"
  /\ i \in 1..Len(calls)
  /\ calls[i].mode = "set"
  /\ calls[i].phase = "started"
  /\ ~calls[i].stopped
  /\ calls[i].enabledCbs < MaxEnabledCallbacks
  /\ isAdvertising' = CallbackFlag(status)
  /\ calls' = [calls EXCEPT ![i] =
                 [CallbackSettle(@, status) EXCEPT !.enabledCbs = @ + 1]]
  /\ last' = Op("onAdvertisingEnabled", i, status)
  /\ UNCHANGED <<platform, sdkO, state, advertisingCallback, advertisingSetCallback,
                 gattServer, openServers, devices, manager, startAdvertisingPromise,
                 managerIsAdvertising>>
  /\ UNCHANGED gattVars

\* broadcastReceiver.onReceive: state = getState(), when it changed
AndroidStateChanged(s) ==
  /\ platform = "android"
  /\ s # state
  /\ state' = s
  /\ last' = Op("onStateChanged", 0, s)
  /\ UNCHANGED <<platform, sdkO, isAdvertising, advertisingCallback,
                 advertisingSetCallback, gattServer, openServers, devices, manager,
                 startAdvertisingPromise, managerIsAdvertising, calls>>
  /\ UNCHANGED gattVars

\* A callback that leaves the set alone when the status is a failure
ConnectionUpdate_FailureKeeps(ds, device, success, newState) ==
  IF success /\ newState = "Connected" THEN ds \cup {device}
  ELSE IF success /\ newState = "Disconnected" THEN ds \ {device}
  ELSE ds

\* gattServerCallback.onConnectionStateChange
ConnectionUpdate(ds, device, success, newState) ==
  IF success
  THEN (IF newState = "Connected" THEN ds \cup {device}
        ELSE IF newState = "Disconnected" THEN ds \ {device}
        ELSE ds)
  ELSE ds \ {device}

(***************************************************************************)
(* iOS: start, stop, startAdvertising, stopAdvertising and the delegate    *)
(***************************************************************************)
\* AsyncFunction("start"): creates the CBPeripheralManager
IosStart(s) ==
  /\ platform = "ios"
  /\ IF manager
     THEN /\ last' = Op("managerStart", 0, "AlreadyStarted")
          /\ UNCHANGED <<manager, state>>
     ELSE /\ manager' = TRUE
          /\ state' = s
          /\ last' = Op("managerStart", 0, "resolved")
  /\ UNCHANGED <<platform, sdkO, isAdvertising, advertisingCallback,
                 advertisingSetCallback, gattServer, openServers, devices,
                 startAdvertisingPromise, managerIsAdvertising, calls>>
  /\ UNCHANGED gattVars

\* The manager is released: the platform start calls it was running are gone
DropIssued(cs) ==
  [i \in 1..Len(cs) |->
     IF cs[i].phase = "issued" THEN [cs[i] EXCEPT !.phase = "dropped"] ELSE cs[i]]

\* AsyncFunction("stop")
IosStop ==
  /\ platform = "ios"
  /\ IF manager /\ managerIsAdvertising
     THEN /\ last' = Op("managerStop", 0, "StillAdvertising")
          /\ UNCHANGED <<manager, calls>>
     ELSE /\ manager' = FALSE
          /\ calls' = DropIssued(calls)
          /\ last' = Op("managerStop", 0, "resolved")
  /\ UNCHANGED <<platform, sdkO, state, isAdvertising, advertisingCallback,
                 advertisingSetCallback, gattServer, openServers, devices,
                 startAdvertisingPromise, managerIsAdvertising>>
  /\ UNCHANGED gattVars

\* The guards of AsyncFunction("startAdvertising"), in the order of the code
IosStartResult ==
  IF startAdvertisingPromise # 0 THEN "AlreadyStarting"
  ELSE IF state # "On" THEN "WrongRadioState"
  ELSE IF manager /\ managerIsAdvertising THEN "AlreadyActive"
  ELSE "Accepted"

IosStartAdvertising ==
  /\ platform = "ios"
  /\ LET res == IosStartResult
         id == Len(calls) + 1
     IN IF res # "Accepted"
        THEN /\ last' = Op("start", 0, res)
             /\ UNCHANGED <<startAdvertisingPromise, calls>>
        ELSE /\ Len(calls) < MaxStarts
             /\ startAdvertisingPromise' = id
             \* manager?.startAdvertising(...) does nothing when manager is nil
             /\ calls' = Append(calls, NewCall("ios", manager))
             /\ last' = Op("start", id, res)
  /\ UNCHANGED <<platform, sdkO, state, isAdvertising, advertisingCallback,
                 advertisingSetCallback, gattServer, openServers, devices, manager,
                 managerIsAdvertising>>
  /\ UNCHANGED gattVars

\* AsyncFunction("stopAdvertising"): manager?.stopAdvertising(); the
\* pending-start slot is not touched
IosStopAdvertising ==
  /\ platform = "ios"
  /\ managerIsAdvertising' = IF manager THEN FALSE ELSE managerIsAdvertising
  /\ calls' = IF manager THEN StopHandles(calls, LiveSessions) ELSE calls
  /\ last' = Op("stop", 0, "resolved")
  /\ UNCHANGED <<platform, sdkO, state, isAdvertising, advertisingCallback,
                 advertisingSetCallback, gattServer, openServers, devices, manager,
                 startAdvertisingPromise>>
  /\ UNCHANGED gattVars

\* startAdvertisingPromise?.resolve() / ?.reject(error)
SettleSlot(cs, slot, status) ==
  IF slot = 0 THEN cs ELSE [cs EXCEPT ![slot] = CallbackSettle(@, status)]

\* peripheralManagerDidStartAdvertising(_:error:)
IosDidStartAdvertising(i, status) ==
  /\ platform = "ios"
  /\ manager
  /\ i \in 1..Len(calls)
  /\ calls[i].phase = "issued"
  /\ managerIsAdvertising' =
       IF status = 0 /\ ~calls[i].stopped THEN TRUE ELSE managerIsAdvertising
  /\ calls' = [SettleSlot(calls, startAdvertisingPromise, status) EXCEPT
                 ![i].phase = IF status = 0 THEN "started" ELSE "failed"]
  /\ startAdvertisingPromise' = 0
  /\ last' = Op("didStartAdvertising", i, status)
  /\ UNCHANGED <<platform, sdkO, state, isAdvertising, advertisingCallback,
                 advertisingSetCallback, gattServer, openServers, devices, manager>>
  /\ UNCHANGED gattVars

\* peripheralManagerDidUpdateState: state = getState(); below poweredOn the
\* platform has stopped advertising
IosStateChanged(s) ==
  /\ platform = "ios"
  /\ manager
  /\ s # state
  /\ state' = s
  /\ managerIsAdvertising' = (managerIsAdvertising /\ s = "On")
  /\ calls' = IF s = "On" THEN calls
              ELSE StopHandles(calls, {i \in 1..Len(calls) : calls[i].phase = "started"})
  /\ last' = Op("onStateChanged", 0, s)
  /\ UNCHANGED <<platform, sdkO, isAdvertising, advertisingCallback,
                 advertisingSetCallback, gattServer, openServers, devices, manager,
                 startAdvertisingPromise>>
  /\ UNCHANGED gattVars

(***************************************************************************)
(* SpecAdv: the advertising controller of either platform                  *)
(***************************************************************************)
GattIdle ==
  /\ values = <<>>
  /\ uuid = <<>>
  /\ preparedCharacteristicWrites = <<>>
  /\ added = <<>>
  /\ evicted = {}
  /\ stagedBy = <<>>
  /\ servicesMap = <<>>
  /\ hashSeed = <<"s1", "s2">>
  /\ inflight = Idle
  /\ preparedDescriptorWrites = <<>>

InitAdv ==
  /\ platform \in {"android", "ios"}
  /\ sdkO \in (IF platform = "android" THEN BOOLEAN ELSE {TRUE})
  /\ state \in (IF platform = "android" THEN BleState ELSE {"Unknown"})
  /\ isAdvertising = FALSE
  /\ advertisingCallback = 0
  /\ advertisingSetCallback = 0
  /\ gattServer = 0
  /\ openServers = {}
  /\ devices = {}
  /\ manager = FALSE
  /\ startAdvertisingPromise = 0
  /\ managerIsAdvertising = FALSE
  /\ calls = <<>>
  /\ last = [op |-> "init", id |-> 0, result |-> "", pre |-> Ctl]
  /\ GattIdle

NextAdv ==
  \/ \E prefer \in BOOLEAN : AndroidStart(prefer)
  \/ AndroidStop
  \/ \E i \in 1..MaxStarts, status \in {0} \cup AdvertiseFailureCodes :
       AndroidStartCallback(i, status)
  \/ \E i \in 1..MaxStarts, enable \in BOOLEAN,
        status \in {0} \cup AdvertiseFailureCodes :
       OnAdvertisingEnabled(i, enable, status)
  \/ \E s \in BleState : AndroidStateChanged(s)
  \/ \E s \in BleState : IosStart(s)
  \/ IosStop
  \/ IosStartAdvertising
  \/ IosStopAdvertising
  \/ \E i \in 1..MaxStarts, status \in {0} \cup AdvertiseFailureCodes :
       IosDidStartAdvertising(i, status)
  \/ \E s \in BleState : IosStateChanged(s)

SpecAdv == InitAdv /\ [][NextAdv]_vars

\* The answer a start-advertising call would get in the current state
StartResult ==
  IF platform = "ios" THEN IosStartResult ELSE AndroidStartResult

StartCallbackOps ==
  {"onStartSuccess", "onStartFailure", "onAdvertisingSetStarted", "didStartAdvertising"}

(***************************************************************************)
(* Claims about the advertising controller (checked under SpecAdv)         *)
(***************************************************************************)

\* C1: at most one advertising session is Starting or Active; a start call
\* made while an earlier start awaits its callback is rejected with
\* AlreadyStarting, one made while Active with AlreadyActive, and in both
\* cases no platform start call is issued and the controller is unchanged.
C1_StartMutualExclusion ==
  /\ Cardinality(LiveSessions) <= 1
  /\ (last.op = "start" /\ last.pre.state = "On" /\ last.pre.phase = "Starting")
       => (last.result = "AlreadyStarting" /\ Ctl = last.pre)
  /\ (last.op = "start" /\ last.pre.state = "On" /\ last.pre.phase = "Active")
       => (last.result = "AlreadyActive" /\ Ctl = last.pre)

\* C2: the promise of an accepted start call is resolved or rejected at most
\* once, whatever callbacks the platform delivers.
C2_StartSettledOnce ==
  \A i \in 1..Len(calls) : calls[i].settles <= 1

\* C3: with the radio state not On, start advertising is rejected at once
\* with the wrong-radio-state error, issues no platform start call, registers
\* no callback handle and no pending-start slot, and leaves the controller
\* as it was (Idle stays Idle).
C3_WrongRadioStateRejected ==
  (last.op = "start" /\ last.pre.state # "On") =>
     /\ last.result # "Accepted"
     /\ Ctl = last.pre
     /\ (platform = "android" \/ last.pre.slot = 0) =>
           last.result = "WrongRadioState"
     /\ last.pre.phase = "Idle" => (last.result = "WrongRadioState" /\ Phase = "Idle")

C3_Witness ==
  /\ last.op = "start"
  /\ last.pre.state = "Off"
  /\ last.pre.phase = "Idle"
  /\ last.result = "WrongRadioState"
  /\ calls # <<>>

\* C4: the callback of a start that is awaiting it (controller Starting):
\* success makes the controller Active and resolves that start's promise;
\* failure makes it not advertising, rejects that start's promise with the
\* platform status code, and a new start (radio On) is then accepted.
C4_StartCallbackTransitions ==
  (/\ last.op \in StartCallbackOps
   /\ last.id \in last.pre.awaiting
   /\ last.pre.phase = "Starting") =>
     LET c == calls[last.id] IN
     IF last.result = 0
     THEN /\ Phase = "Active"
          /\ c.outcome = "resolved"
          /\ c.settles = 1
     ELSE /\ ~Advertising
          /\ c.outcome = "rejected"
          /\ c.code = last.result
          /\ c.settles = 1
          /\ state = "On" => StartResult = "Accepted"

C4_Witness ==
  /\ last.op \in StartCallbackOps
  /\ last.id \in last.pre.awaiting
  /\ last.pre.phase = "Starting"
  /\ last.result = 3
  /\ state = "On"
  /\ calls[last.id].code = 3

\* C5: stop always succeeds and ends Idle: afterwards the controller is not
\* advertising, holds no callback handle and no pending-start slot, and the
\* next start advertising call (radio On) is accepted.
C5_StopEndsIdle ==
  last.op = "stop" =>
     /\ last.result = "resolved"
     /\ ~Advertising
     /\ advertisingCallback = 0
     /\ (sdkO => advertisingSetCallback = 0)
     /\ startAdvertisingPromise = 0
     /\ state = "On" => StartResult = "Accepted"

\* C6: the legacy advertise callback and the advertising-set callback are
\* never both held.
C6_OneCallbackHandle ==
  ~(advertisingCallback # 0 /\ advertisingSetCallback # 0)

\* C36: whenever isAdvertising is true a GATT server is open and an
\* advertising callback handle is held; a start callback that arrives after
\* stop() closed the server (and before a new start) leaves isAdvertising
\* false.
C36_AdvertisingHoldsSession ==
  platform = "android" =>
     /\ isAdvertising =>
          /\ gattServer # 0
          /\ advertisingCallback # 0 \/ advertisingSetCallback # 0
     /\ (last.op \in StartCallbackOps \cup {"onAdvertisingEnabled"}
           /\ last.pre.server = 0) => ~isAdvertising

\* C39: at most one GATT server session is open at any time, whatever
\* starts, callbacks and stops came before; on iOS a start while a manager
\* exists is rejected and leaves the manager and the controller as they were.
C39_OneServerSession ==
  [][/\ Cardinality(openServers') <= 1
     /\ (platform = "ios" /\ manager /\ last'.op = "managerStart") =>
          /\ last'.result = "AlreadyStarted"
          /\ manager'
          /\ UNCHANGED <<state, startAdvertisingPromise, managerIsAdvertising, calls>>]_vars

(***************************************************************************)
(* SpecAdvLive: the Swift advertising controller with a platform that      *)
(* answers every start call it was handed                                  *)
(***************************************************************************)
InitAdvLive ==
  /\ platform = "ios"
  /\ InitAdv

NextAdvLive ==
  \/ \E s \in BleState : IosStart(s)
  \/ IosStop
  \/ IosStartAdvertising
  \/ IosStopAdvertising
  \/ \E i \in 1..MaxStarts, status \in {0} \cup AdvertiseFailureCodes :
       IosDidStartAdvertising(i, status)
  \/ \E s \in BleState : IosStateChanged(s)

\* CBPeripheralManager calls peripheralManagerDidStartAdvertising on the
\* delegate for a startAdvertising it was handed, as long as it exists; the
\* callback always changes the record of that call
PlatformDelivers ==
  \A i \in 1..MaxStarts :
    WF_calls(\E status \in {0} \cup AdvertiseFailureCodes :
              IosDidStartAdvertising(i, status))

SpecAdvLive == InitAdvLive /\ [][NextAdvLive]_vars /\ PlatformDelivers

\* C35: every accepted startAdvertising call is in the end resolved or
\* rejected and the pending-start slot it took is freed, when the platform
\* answers every start call it was handed.
C35_StartTerminates ==
  \A i \in 1..MaxStarts :
    (startAdvertisingPromise = i) ~>
       (/\ startAdvertisingPromise # i
        /\ i <= Len(calls)
        /\ calls[i].outcome # "pending")

(***************************************************************************)
(* GATT request handlers: byte-array helpers                               *)
(***************************************************************************)
\* Kotlin ByteArray.sliceArray(from until until): empty when the range is empty
SliceArray(v, from, until) ==
  IF from >= until THEN <<>> ELSE SubSeq(v, from + 1, until)

\* value.sliceArray(0 until offset) + bytes (Kotlin);
\* value.replaceSubrange(offset..., with: bytes) (Swift)
Splice(v, offset, bytes) == SliceArray(v, 0, offset) \o bytes

\* part_001: bytes.copyInto(value.copyOf(), offset): overwrite in place
CopyInto(v, offset, bytes) ==
  [i \in 1..Len(v) |->
     IF i > offset /\ i <= offset + Len(bytes) THEN bytes[i - offset] ELSE v[i]]

\* Swift: char.value?[offset...]
Suffix(v, offset) == IF v = Nil THEN Nil ELSE SliceArray(v, offset, Len(v))

\* Swift: char.value?.count ?? 0
Count(v) == IF v = Nil THEN 0 ELSE Len(v)

(***************************************************************************)
(* android.util.LruCache<Int, Pair<characteristic, buffer>>(16), kept as   *)
(* the sequence of its entries, least recently used first. An entry also   *)
(* carries frags, the fragments it accepted with the offsets they came at, *)
(* for the statements below.                                               *)
(***************************************************************************)
CacheIds(cache) == {cache[i].rid : i \in 1..Len(cache)}

CacheEntry(cache, rid) ==
  cache[CHOOSE i \in 1..Len(cache) : cache[i].rid = rid]

CacheRemove(cache, rid) ==
  SelectSeq(cache, LAMBDA e : e.rid # rid)

\* LruCache.get: a hit becomes the most recently used entry
CacheGet(cache, rid) ==
  IF rid \in CacheIds(cache)
  THEN Append(CacheRemove(cache, rid), CacheEntry(cache, rid))
  ELSE cache

\* LruCache.trimToSize: evict the eldest entries above the capacity
TrimToSize(cache) ==
  IF Len(cache) > PreparedCapacity
  THEN SubSeq(cache, Len(cache) - PreparedCapacity + 1, Len(cache))
  ELSE cache

\* LruCache.put
CachePut(cache, e) == TrimToSize(Append(CacheRemove(cache, e.rid), e))

\* The pending entries whatever their recency, and the length of the pending
\* buffer of a request id (0 when it has none)
Entries(cache) == {cache[i] : i \in 1..Len(cache)}
PendingLen(cache, rid) ==
  IF rid \in CacheIds(cache) THEN Len(CacheEntry(cache, rid).buffer) ELSE 0

(***************************************************************************)
(* Kotlin gattServerCallback                                               *)
(***************************************************************************)
\* The bytes of a plain write at offset 0 over an empty value
OverEmpty(v, offset, bytes) ==
  IF v = <<>> /\ offset = 0 THEN bytes ELSE Nil

\* What a read at offset 0 carries on from the request before it
Carried(prev, c, offset) ==
  IF prev.op = "write" /\ prev.char = c /\ offset = 0 THEN prev.written ELSE Nil

\* The last request handled: its request id, characteristic, the status and
\* bytes answered; entry is the pending entry an execute found, applied the
\* values a didReceiveWrite batch assigned, events the characteristic-written
\* events the handler sent (each the entries it lists), sends the
\* notifications an updateCharacteristic attempted with their outcomes, batch
\* the requests didReceiveWrite was handed, device the device of a connection
\* callback, service the service uuid a store function was given, native the
\* calls it made on the platform's server or manager, returned the
\* characteristics getCharacteristics answered, uuid the characteristic uuid
\* a store function was given, offset that of a read request, written the
\* bytes a plain write at offset 0 put over an empty value (Nil otherwise),
\* which the read at offset 0 of that characteristic right after it carries
\* on, order the order in which the loop of updateCharacteristic took the
\* devices, descriptor the pending descriptor entry an execute found and
\* whether it was committed
Req(name, id, c, result, data) ==
  [op |-> name, id |-> id, char |-> c, result |-> result, data |-> data,
   entry |-> <<>>, applied |-> <<>>, events |-> <<>>, sends |-> {},
   batch |-> <<>>, device |-> "", service |-> "", native |-> <<>>,
   returned |-> <<>>, uuid |-> "", offset |-> 0, written |-> Nil,
   order |-> <<>>, descriptor |-> <<>>]

\* gattServerCallback.onConnectionStateChange
OnConnectionStateChange(device, success, newState) ==
  /\ platform = "android"
  /\ gattServer # 0
  /\ devices' = ConnectionUpdate(devices, device, success, newState)
  /\ last' = [Req("connection", 0, "", IF success THEN newState ELSE "Failure", Nil)
               EXCEPT !.device = device]
  /\ UNCHANGED <<platform, sdkO, state, isAdvertising, advertisingCallback,
                 advertisingSetCallback, gattServer, openServers, manager,
                 startAdvertisingPromise, managerIsAdvertising, calls>>
  /\ UNCHANGED gattVars

\* onCharacteristicReadRequest: the status and bytes handed to sendResponse
AndroidReadResponse(v, offset) ==
  IF v = Nil
  THEN [status |-> "NullPointerException", data |-> Nil]
  ELSE [status |-> "GATT_SUCCESS", data |-> SliceArray(v, offset, Len(v))]

AndroidReadRequest(c, offset) ==
  /\ platform \in {"android", "android_old"}
  /\ c \in DOMAIN values
  /\ LET r == AndroidReadResponse(values[c], offset)
     IN last' = [Req("read", 0, c, r.status, r.data)
                   EXCEPT !.offset = offset, !.written = Carried(last, c, offset)]
  /\ UNCHANGED advVars
  /\ UNCHANGED gattVars

\* A preparedWrite branch whose entries for one characteristic share a buffer
PreparedStage_SharedBuffer(cache, rid, c, offset, bytes) ==
  LET pair == IF rid \in CacheIds(cache)
              THEN CacheEntry(cache, rid)
              ELSE [rid |-> rid, char |-> c, buffer |-> <<>>, frags |-> <<>>]
      got == CacheGet(cache, rid)
      put == CachePut(got, [pair EXCEPT !.buffer = @ \o bytes,
                                        !.frags = Append(@, [offset |-> offset,
                                                             bytes |-> bytes])])
  IN IF uuid[c] = uuid[pair.char] /\ offset = Len(pair.buffer)
     THEN [status |-> "GATT_SUCCESS",
           cache |-> [i \in 1..Len(put) |->
                        IF put[i].char = pair.char
                        THEN [put[i] EXCEPT !.buffer = pair.buffer \o bytes]
                        ELSE put[i]]]
     ELSE [status |-> "GATT_INVALID_OFFSET", cache |-> got]

\* A preparedWrite branch that finds a trimmed entry again
PreparedStage_ResumesEvicted(cache, rid, c, offset, bytes) ==
  LET pair == IF rid \in CacheIds(cache)
              THEN CacheEntry(cache, rid)
              ELSE IF \E e \in evicted : e.rid = rid
              THEN CHOOSE e \in evicted : e.rid = rid
              ELSE [rid |-> rid, char |-> c, buffer |-> <<>>, frags |-> <<>>]
      got == CacheGet(cache, rid)
  IN IF uuid[c] = uuid[pair.char] /\ offset = Len(pair.buffer)
     THEN [status |-> "GATT_SUCCESS",
           cache |-> CachePut(got, [pair EXCEPT !.buffer = @ \o bytes,
                                                !.frags = Append(@, [offset |-> offset,
                                                                     bytes |-> bytes])])]
     ELSE [status |-> "GATT_INVALID_OFFSET", cache |-> got]

\* A preparedWrite branch that takes a fragment at any offset
PreparedStage_AnyOffset(cache, rid, c, offset, bytes) ==
  LET pair == IF rid \in CacheIds(cache)
              THEN CacheEntry(cache, rid)
              ELSE [rid |-> rid, char |-> c, buffer |-> <<>>, frags |-> <<>>]
      got == CacheGet(cache, rid)
  IN IF uuid[c] = uuid[pair.char]
     THEN [status |-> "GATT_SUCCESS",
           cache |-> CachePut(got, [pair EXCEPT !.buffer = @ \o bytes,
                                                !.frags = Append(@, [offset |-> offset,
                                                                     bytes |-> bytes])])]
     ELSE [status |-> "GATT_INVALID_OFFSET", cache |-> got]

\* A preparedWrite branch that puts each fragment in front of the buffer
PreparedStage_Prepend(cache, rid, c, offset, bytes) ==
  LET pair == IF rid \in CacheIds(cache)
              THEN CacheEntry(cache, rid)
              ELSE [rid |-> rid, char |-> c, buffer |-> <<>>, frags |-> <<>>]
      got == CacheGet(cache, rid)
  IN IF uuid[c] = uuid[pair.char] /\ offset = Len(pair.buffer)
     THEN [status |-> "GATT_SUCCESS",
           cache |-> CachePut(got, [pair EXCEPT !.buffer = bytes \o @,
                                                !.frags = Append(@, [offset |-> offset,
                                                                     bytes |-> bytes])])]
     ELSE [status |-> "GATT_INVALID_OFFSET", cache |-> got]

\* onCharacteristicWriteRequest, preparedWrite branch
PreparedStage(cache, rid, c, offset, bytes) ==
  LET pair == IF rid \in CacheIds(cache)
              THEN CacheEntry(cache, rid)
              ELSE [rid |-> rid, char |-> c, buffer |-> <<>>, frags |-> <<>>]
      got == CacheGet(cache, rid)
  IN IF uuid[c] = uuid[pair.char] /\ offset = Len(pair.buffer)
     THEN [status |-> "GATT_SUCCESS",
           cache |-> CachePut(got, [pair EXCEPT !.buffer = @ \o bytes,
                                                !.frags = Append(@, [offset |-> offset,
                                                                     bytes |-> bytes])])]
     ELSE [status |-> "GATT_INVALID_OFFSET", cache |-> got]

\* A plain branch that overwrites in place and never lengthens the value
PlainWrite_InPlace(v, offset, bytes) ==
  IF v = Nil
  THEN [status |-> "NullPointerException", value |-> v]
  ELSE IF offset + Len(bytes) > Len(v)
  THEN [status |-> "GATT_SUCCESS", value |-> v]
  ELSE [status |-> "GATT_SUCCESS", value |-> CopyInto(v, offset, bytes)]

\* onCharacteristicWriteRequest, plain branch
PlainWrite(v, offset, bytes) ==
  IF v = Nil
  THEN [status |-> "NullPointerException", value |-> v]
  ELSE IF offset <= Len(v)
  THEN [status |-> "GATT_SUCCESS", value |-> Splice(v, offset, bytes)]
  ELSE [status |-> "GATT_INVALID_OFFSET", value |-> v]

\* The insertion order of the pending ids after the cache went from cache to
\* next: ids that left are dropped, an id that came is the latest added
AddedAfter(order, cache, next) ==
  LET kept == SelectSeq(order, LAMBDA id : id \in CacheIds(next))
      came == CacheIds(next) \ CacheIds(cache)
  IN IF came = {} THEN kept ELSE Append(kept, CHOOSE id \in came : TRUE)

\* The trimmed entries after a put took the cache from cache to next
EvictedAfter(gone, cache, next) ==
  {e \in gone : e.rid \notin CacheIds(next)}
    \cup {e \in Entries(cache) : e.rid \notin CacheIds(next)}

\* The devices that opened the pending entries after the cache went from
\* cache to next on a request of device
StagedAfter(by, device, cache, next) ==
  [id \in CacheIds(next) |-> IF id \in CacheIds(cache) THEN by[id] ELSE device]

AndroidWriteRequest(device, rid, c, preparedWrite, responseNeeded, offset, bytes) ==
  /\ platform = "android"
  /\ c \in DOMAIN values
  /\ IF preparedWrite
     THEN LET r == PreparedStage(preparedCharacteristicWrites, rid, c, offset, bytes)
          IN /\ \A i \in 1..Len(r.cache) :
                   Len(r.cache[i].buffer) <= MaxLen /\ Len(r.cache[i].frags) <= MaxFrags
             /\ preparedCharacteristicWrites' = r.cache
             /\ added' = AddedAfter(added, preparedCharacteristicWrites, r.cache)
             /\ evicted' = EvictedAfter(evicted, preparedCharacteristicWrites, r.cache)
             /\ stagedBy' = StagedAfter(stagedBy, device, preparedCharacteristicWrites, r.cache)
             /\ last' = Req("stage", rid, c, r.status, Nil)
             /\ UNCHANGED values
     ELSE LET r == PlainWrite(values[c], offset, bytes)
          IN /\ r.value = Nil \/ Len(r.value) <= MaxLen
             /\ values' = [values EXCEPT ![c] = r.value]
             /\ last' = [Req("write", rid, c, r.status, r.value)
                           EXCEPT !.written = OverEmpty(values[c], offset, bytes)]
             /\ UNCHANGED <<preparedCharacteristicWrites, added, evicted, stagedBy>>
  /\ UNCHANGED <<uuid, servicesMap, hashSeed, inflight, preparedDescriptorWrites>>
  /\ UNCHANGED advVars

(***************************************************************************)
(* Kotlin gattServerCallback: descriptor requests. The platform hands the  *)
(* callback the descriptor object; its value is kept in values like that   *)
(* of a characteristic.                                                    *)
(***************************************************************************)
\* onDescriptorReadRequest: the status and bytes handed to sendResponse
DescriptorReadResponse(v, offset) ==
  IF v = Nil
  THEN [status |-> "NullPointerException", data |-> Nil]
  ELSE [status |-> "GATT_SUCCESS", data |-> SliceArray(v, offset, Len(v))]

AndroidDescriptorReadRequest(d, offset) ==
  /\ platform = "android"
  /\ d \in DOMAIN values
  /\ LET r == DescriptorReadResponse(values[d], offset)
     IN last' = [Req("descriptorRead", 0, d, r.status, r.data) EXCEPT !.offset = offset]
  /\ UNCHANGED advVars
  /\ UNCHANGED gattVars

\* onDescriptorWriteRequest, preparedWrite branch
DescriptorStage(cache, rid, d, offset, bytes) ==
  LET pair == IF rid \in CacheIds(cache)
              THEN CacheEntry(cache, rid)
              ELSE [rid |-> rid, char |-> d, buffer |-> <<>>, frags |-> <<>>]
      got == CacheGet(cache, rid)
  IN IF uuid[d] = uuid[pair.char] /\ offset = Len(pair.buffer)
     THEN [status |-> "GATT_SUCCESS",
           cache |-> CachePut(got, [pair EXCEPT !.buffer = @ \o bytes,
                                                !.frags = Append(@, [offset |-> offset,
                                                                     bytes |-> bytes])])]
     ELSE [status |-> "GATT_INVALID_OFFSET", cache |-> got]

\* A plain branch for descriptors that takes no write at the end of the value
DescriptorWrite_NoAppend(v, offset, bytes) ==
  IF v = Nil
  THEN [status |-> "NullPointerException", value |-> v]
  ELSE IF offset < Len(v) \/ offset = 0
  THEN [status |-> "GATT_SUCCESS", value |-> Splice(v, offset, bytes)]
  ELSE [status |-> "GATT_INVALID_OFFSET", value |-> v]

\* onDescriptorWriteRequest, plain branch
DescriptorWrite(v, offset, bytes) ==
  IF v = Nil
  THEN [status |-> "NullPointerException", value |-> v]
  ELSE IF offset <= Len(v)
  THEN [status |-> "GATT_SUCCESS", value |-> Splice(v, offset, bytes)]
  ELSE [status |-> "GATT_INVALID_OFFSET", value |-> v]

AndroidDescriptorWriteRequest(device, rid, d, preparedWrite, responseNeeded, offset, bytes) ==
  /\ platform = "android"
  /\ d \in DOMAIN values
  /\ LET request == <<[char |-> d, offset |-> offset, value |-> bytes]>>
     IN IF preparedWrite
        THEN LET r == DescriptorStage(preparedDescriptorWrites, rid, d, offset, bytes)
             IN /\ \A i \in 1..Len(r.cache) :
                      Len(r.cache[i].buffer) <= MaxLen /\ Len(r.cache[i].frags) <= MaxFrags
                /\ preparedDescriptorWrites' = r.cache
                /\ last' = [Req("descriptorStage", rid, d, r.status, Nil)
                              EXCEPT !.batch = request]
                /\ UNCHANGED values
        ELSE LET r == DescriptorWrite(values[d], offset, bytes)
             IN /\ r.value = Nil \/ Len(r.value) <= MaxLen
                /\ values' = [values EXCEPT ![d] = r.value]
                /\ last' = [Req("descriptorWrite", rid, d, r.status, r.value)
                              EXCEPT !.batch = request]
                /\ UNCHANGED preparedDescriptorWrites
  /\ UNCHANGED <<uuid, preparedCharacteristicWrites, added, evicted, stagedBy,
                 servicesMap, hashSeed, inflight>>
  /\ UNCHANGED advVars

\* onExecuteWrite (descriptor part)
ExecuteDescriptors(vals, cache, rid, execute) ==
  IF rid \in CacheIds(cache) /\ execute
  THEN [vals EXCEPT ![CacheEntry(cache, rid).char] = CacheEntry(cache, rid).buffer]
  ELSE vals

\* The descriptor entry an execute found, and whether it was committed
DescriptorFound(cache, rid, execute) ==
  IF rid \in CacheIds(cache)
  THEN <<[char |-> CacheEntry(cache, rid).char, buffer |-> CacheEntry(cache, rid).buffer,
          committed |-> execute]>>
  ELSE <<>>

\* An onExecuteWrite that falls back on the eldest entry for an unknown id
ExecuteValues_CommitsEldest(vals, cache, rid, execute) ==
  IF rid \in CacheIds(cache) /\ execute
  THEN [vals EXCEPT ![CacheEntry(cache, rid).char] = CacheEntry(cache, rid).buffer]
  ELSE IF rid \notin CacheIds(cache) /\ cache # <<>>
  THEN [vals EXCEPT ![cache[1].char] = cache[1].buffer]
  ELSE vals

\* An onExecuteWrite that sets the value whatever the execute flag says
ExecuteValues_AlwaysCommit(vals, cache, rid, execute) ==
  IF rid \in CacheIds(cache)
  THEN [vals EXCEPT ![CacheEntry(cache, rid).char] = CacheEntry(cache, rid).buffer]
  ELSE vals

\* onExecuteWrite (characteristic part)
ExecuteValues(vals, cache, rid, execute) ==
  IF rid \in CacheIds(cache) /\ execute
  THEN [vals EXCEPT ![CacheEntry(cache, rid).char] = CacheEntry(cache, rid).buffer]
  ELSE vals

OnExecuteWrite(rid, execute) ==
  /\ platform = "android"
  /\ values' = ExecuteDescriptors(
                  ExecuteValues(values, preparedCharacteristicWrites, rid, execute),
                  preparedDescriptorWrites, rid, execute)
  /\ preparedCharacteristicWrites' = CacheRemove(preparedCharacteristicWrites, rid)
  /\ preparedDescriptorWrites' = CacheRemove(preparedDescriptorWrites, rid)
  /\ last' = [(IF rid \in CacheIds(preparedCharacteristicWrites)
               THEN [Req("execute", rid, CacheEntry(preparedCharacteristicWrites, rid).char,
                         IF execute THEN "committed" ELSE "cancelled", Nil)
                       EXCEPT !.entry = <<CacheEntry(preparedCharacteristicWrites, rid)>>]
               ELSE Req("execute", rid, "", "nothing", Nil))
                EXCEPT !.descriptor =
                         DescriptorFound(preparedDescriptorWrites, rid, execute)]
  /\ added' = AddedAfter(added, preparedCharacteristicWrites,
                         CacheRemove(preparedCharacteristicWrites, rid))
  /\ stagedBy' = StagedAfter(stagedBy, "d1", preparedCharacteristicWrites,
                             CacheRemove(preparedCharacteristicWrites, rid))
  /\ UNCHANGED evicted
  /\ UNCHANGED <<uuid, servicesMap, hashSeed, inflight>>
  /\ UNCHANGED advVars

(***************************************************************************)
(* unnamed/part_001: the earlier onCharacteristicWriteRequest              *)
(***************************************************************************)
OldWrite(v, offset, bytes) ==
  IF v = Nil
  THEN [status |-> "NullPointerException", value |-> v, data |-> Nil]
  ELSE IF offset + Len(bytes) > Len(v)
  THEN [status |-> "GATT_SUCCESS", value |-> v, data |-> Nil]
  ELSE [status |-> "GATT_SUCCESS", value |-> CopyInto(v, offset, bytes), data |-> bytes]

OldWriteRequest(rid, c, preparedWrite, responseNeeded, offset, bytes) ==
  /\ platform = "android_old"
  /\ c \in DOMAIN values
  /\ LET r == OldWrite(values[c], offset, bytes)
     IN /\ values' = [values EXCEPT ![c] = r.value]
        /\ last' = Req("write", rid, c, r.status, r.value)
  /\ UNCHANGED <<preparedCharacteristicWrites, added, evicted, stagedBy>>
  /\ UNCHANGED <<uuid, servicesMap, hashSeed, inflight, preparedDescriptorWrites>>
  /\ UNCHANGED advVars

(***************************************************************************)
(* Swift PeripheralManagerDelegate: didReceiveRead, didReceiveWrite        *)
(***************************************************************************)
\* A didReceiveRead that answers an unknown characteristic with no bytes
IosReadResponse_UnknownEmpty(vals, c, offset) ==
  IF c \notin DOMAIN vals
  THEN [status |-> "success", data |-> Nil]
  ELSE IF offset > Count(vals[c])
  THEN [status |-> "invalidOffset", data |-> Nil]
  ELSE [status |-> "success", data |-> Suffix(vals[c], offset)]

\* peripheralManager(_:didReceiveRead:), vals[c] being getCharacteristic(uuid)
IosReadResponse(vals, c, offset) ==
  IF c \notin DOMAIN vals
  THEN [status |-> "readNotPermitted", data |-> Nil]
  ELSE IF offset > Count(vals[c])
  THEN [status |-> "invalidOffset", data |-> Nil]
  ELSE [status |-> "success", data |-> Suffix(vals[c], offset)]

IosReadRequest(c, offset) ==
  /\ platform = "ios"
  /\ LET r == IosReadResponse(values, c, offset)
     IN last' = [Req("read", 0, c, r.status, r.data)
                   EXCEPT !.offset = offset, !.written = Carried(last, c, offset)]
  /\ UNCHANGED advVars
  /\ UNCHANGED gattVars

\* A first loop that keeps what it collected when a request fails
RECURSIVE IosCollect_KeepsValidated(_, _, _, _)
IosCollect_KeepsValidated(vals, requests, at, chars) ==
  IF at > Len(requests)
  THEN [status |-> "success", respondedTo |-> 1, chars |-> chars]
  ELSE LET req == requests[at]
           value == IF vals[req.char] # Nil THEN vals[req.char] ELSE <<>>
       IN IF req.char \notin DOMAIN vals
          THEN [status |-> "writeNotPermitted", respondedTo |-> at, chars |-> chars]
          ELSE IF req.offset > Len(value)
          THEN [status |-> "invalidOffset", respondedTo |-> at, chars |-> chars]
          ELSE IosCollect_KeepsValidated(vals, requests, at + 1,
                 Append(chars, [char |-> req.char,
                                value |-> Splice(value, req.offset, req.value)]))

\* The first loop of didReceiveWrite: every request is checked against the
\* stored value and its new value is collected in chars; the first request
\* that fails is answered and nothing is applied. at is the position of the
\* request being looked at.
RECURSIVE IosCollect(_, _, _, _)
IosCollect(vals, requests, at, chars) ==
  IF at > Len(requests)
  THEN [status |-> "success", respondedTo |-> 1, chars |-> chars]
  ELSE LET req == requests[at]
           value == IF vals[req.char] # Nil THEN vals[req.char] ELSE <<>>
       IN IF req.char \notin DOMAIN vals
          THEN [status |-> "writeNotPermitted", respondedTo |-> at, chars |-> <<>>]
          ELSE IF req.offset > Len(value)
          THEN [status |-> "invalidOffset", respondedTo |-> at, chars |-> <<>>]
          ELSE IosCollect(vals, requests, at + 1,
                 Append(chars, [char |-> req.char,
                                value |-> Splice(value, req.offset, req.value)]))

\* The second loop of didReceiveWrite: char.value = value, in order
RECURSIVE IosApply(_, _)
IosApply(vals, chars) ==
  IF chars = <<>> THEN vals
  ELSE IosApply([vals EXCEPT ![Head(chars).char] = Head(chars).value], Tail(chars))

\* A didReceiveWrite that sends an event for every request
IosWrittenEvents_PerRequest(status, chars) ==
  IF status = "success"
  THEN [i \in 1..Len(chars) |-> <<chars[i]>>]
  ELSE <<>>

\* The characteristic-written events of didReceiveWrite: one event after the
\* second loop, with an entry (characteristic and value assigned) for every
\* collected pair; none when a request failed
IosWrittenEvents(status, chars) ==
  IF status = "success" THEN <<chars>> ELSE <<>>

IosWriteRequests(requests) ==
  /\ platform = "ios"
  /\ LET r == IosCollect(values, requests, 1, <<>>)
     IN /\ \A i \in 1..Len(r.chars) : Len(r.chars[i].value) <= MaxLen
        /\ values' = IosApply(values, r.chars)
        /\ last' = [Req("write", 0, requests[r.respondedTo].char, r.status, Nil)
                      EXCEPT !.batch = requests,
                             !.written = IF Len(requests) = 1 /\ requests[1].char \in DOMAIN values
                                         THEN OverEmpty(values[requests[1].char],
                                                        requests[1].offset, requests[1].value)
                                         ELSE Nil,
                             !.applied = r.chars,
                             !.events = IosWrittenEvents(r.status, r.chars)]
  /\ UNCHANGED <<preparedCharacteristicWrites, added, evicted, stagedBy>>
  /\ UNCHANGED <<uuid, servicesMap, hashSeed, inflight, preparedDescriptorWrites>>
  /\ UNCHANGED advVars

(***************************************************************************)
(* SpecGatt: the peer request handlers of the three modules                *)
(***************************************************************************)
\* The module as constructed
AdvIdle ==
  /\ sdkO = TRUE
  /\ state = "On"
  /\ isAdvertising = FALSE
  /\ advertisingCallback = 0
  /\ advertisingSetCallback = 0
  /\ gattServer = 0
  /\ openServers = {}
  /\ devices = {}
  /\ manager = FALSE
  /\ startAdvertisingPromise = 0
  /\ managerIsAdvertising = FALSE
  /\ calls = <<>>

\* The module once it was started and its start callback reported success:
\* only then does the platform deliver peer requests
Serving ==
  /\ sdkO = TRUE
  /\ state = "On"
  /\ isAdvertising = (platform # "ios")
  /\ advertisingCallback = 0
  /\ advertisingSetCallback = (IF platform = "ios" THEN 0 ELSE 1)
  /\ gattServer = (IF platform = "ios" THEN 0 ELSE 1)
  /\ openServers = (IF platform = "ios" THEN {} ELSE {1})
  /\ devices = {}
  /\ manager = (platform = "ios")
  /\ startAdvertisingPromise = 0
  /\ managerIsAdvertising = (platform = "ios")
  /\ calls = <<[Resolve(NewCall(IF platform = "ios" THEN "ios" ELSE "set", TRUE))
                  EXCEPT !.phase = "started"]>>

\* One CBATTRequest; a batch of several carries short values
WriteRequest == [char : Chars \cup {UnknownChar}, offset : Offsets, value : Bytes(MaxLen)]
ShortWriteRequest == [char : Chars \cup {UnknownChar}, offset : {0, 1}, value : {<<1>>, <<2>>}]
WriteBatches ==
  [1..1 -> WriteRequest] \cup UNION {[1..n -> ShortWriteRequest] : n \in 2..MaxBatch}

InitGatt ==
  /\ platform \in {"android", "android_old", "ios"}
  /\ Serving
  /\ values \in [Chars -> Val]
  /\ uuid = DistinctUuids
  /\ preparedCharacteristicWrites = <<>>
  /\ added = <<>>
  /\ evicted = {}
  /\ stagedBy = <<>>
  /\ servicesMap = OneService
  /\ hashSeed = <<"s1", "s2">>
  /\ inflight = Idle
  /\ preparedDescriptorWrites = <<>>
  /\ last = Req("init", 0, "", "", Nil)

\* Plain reads and writes; prepared writes are the subject of SpecPrepared
NextGatt ==
  \/ \E c \in Chars, offset \in Offsets : AndroidReadRequest(c, offset)
  \/ \E rid \in RequestIds, c \in Chars, preparedWrite \in {FALSE},
        responseNeeded \in BOOLEAN, offset \in Offsets, bytes \in Bytes(MaxLen) :
       AndroidWriteRequest("d1", rid, c, preparedWrite, responseNeeded, offset, bytes)
  \/ \E rid \in RequestIds, c \in Chars, preparedWrite \in BOOLEAN,
        responseNeeded \in BOOLEAN, offset \in Offsets, bytes \in Bytes(MaxLen) :
       OldWriteRequest(rid, c, preparedWrite, responseNeeded, offset, bytes)
  \/ \E c \in Chars \cup {UnknownChar}, offset \in Offsets : IosReadRequest(c, offset)
  \/ \E requests \in WriteBatches : IosWriteRequests(requests)

SpecGatt == InitGatt /\ [][NextGatt]_vars

\* The status names of the two platforms
Success == {"GATT_SUCCESS", "success"}
InvalidOffset == {"GATT_INVALID_OFFSET", "invalidOffset"}

\* C7: a read of a characteristic whose value has length L is answered with
\* InvalidOffset when offset > L and otherwise succeeds with the suffix of the
\* value from offset (empty at offset L, the whole value at offset 0); a read
\* never changes the stored value.
C7_ReadContract ==
  [][\A c \in Chars, offset \in Offsets :
       (/\ last'.op = "read"
        /\ values[c] # Nil
        /\ AndroidReadRequest(c, offset) \/ IosReadRequest(c, offset)) =>
          /\ values' = values
          /\ IF offset > Len(values[c])
             THEN last'.result \in InvalidOffset
             ELSE /\ last'.result \in Success
                  /\ last'.data = SubSeq(values[c], offset + 1, Len(values[c]))]_vars

\* C8: a non-prepared write at offset o with bytes B on a characteristic with
\* value v succeeds and leaves exactly v[0..o) ++ B when o <= len(v), and is
\* answered with InvalidOffset leaving the value unchanged when o > len(v).
C8_PlainWriteContract ==
  [][\A c \in Chars, o \in Offsets, B \in Bytes(MaxLen) :
       (/\ last'.op = "write"
        /\ values[c] # Nil
        /\ \/ \E rid \in RequestIds, rn \in BOOLEAN :
                 AndroidWriteRequest("d1", rid, c, FALSE, rn, o, B)
           \/ \E rid \in RequestIds, pw \in BOOLEAN, rn \in BOOLEAN :
                 OldWriteRequest(rid, c, pw, rn, o, B)
           \/ IosWriteRequests(<<[char |-> c, offset |-> o, value |-> B]>>)) =>
          IF o <= Len(values[c])
          THEN /\ values' = [values EXCEPT ![c] = SubSeq(values[c], 1, o) \o B]
               /\ last'.result \in Success
          ELSE /\ values' = values
               /\ last'.result \in InvalidOffset]_vars

\* C13: a batch handed to didReceiveWrite with a failing request (unknown
\* characteristic, or offset beyond the stored length) changes no value, is
\* answered with the code of the first failing request and sends no event;
\* a batch whose requests all pass leaves every targeted characteristic with
\* the splice of the last request for it and every other one unchanged.
C13_AllOrNothingBatch ==
  [][(last'.op = "write" /\ platform = "ios") =>
       LET batch == last'.batch
           Stored(c) == IF values[c] = Nil THEN <<>> ELSE values[c]
           Unknown(i) == batch[i].char \notin DOMAIN values
           Fails(i) == Unknown(i) \/ batch[i].offset > Len(Stored(batch[i].char))
           failing == {i \in DOMAIN batch : Fails(i)}
           For(c) == {i \in DOMAIN batch : batch[i].char = c}
       IN IF failing # {}
          THEN /\ values' = values
               /\ last'.events = <<>>
               /\ \E i \in failing :
                    /\ \A j \in failing : i <= j
                    /\ last'.char = batch[i].char
                    /\ last'.result = IF Unknown(i) THEN "writeNotPermitted"
                                                    ELSE "invalidOffset"
          ELSE /\ last'.result = "success"
               /\ Len(last'.applied) = Len(batch)
               /\ \A c \in DOMAIN values :
                    IF For(c) = {} THEN values'[c] = values[c]
                    ELSE \E i \in For(c) :
                           /\ \A j \in For(c) : j <= i
                           /\ values'[c] = Splice(Stored(c), batch[i].offset,
                                                  batch[i].value)]_vars

\* A batch of two whose first request passes and would change the value,
\* answered with the failure of the second
C13_Witness ==
  /\ platform = "ios"
  /\ last.op = "write"
  /\ Len(last.batch) = 2
  /\ last.result \in {"writeNotPermitted", "invalidOffset"}
  /\ LET req == last.batch[1]
     IN /\ req.char \in DOMAIN values
        /\ values[req.char] # Nil
        /\ req.offset <= Len(values[req.char])
        /\ Splice(values[req.char], req.offset, req.value) # values[req.char]

\* C31: on a characteristic that holds no value (added without one), a read
\* at offset 0 and a non-prepared write at offset 0 are answered with a
\* normal response, and the write leaves the written bytes as the value.
C31_NilValueServed ==
  [][\A c \in Chars :
       (values[c] = Nil /\ platform \in {"android", "ios"}) =>
          /\ (last'.op = "read" /\ last'.char = c /\ last'.offset = 0) =>
                (last'.result \in Success /\ values' = values)
          /\ \A B \in Bytes(MaxLen) :
               (/\ last'.op = "write"
                /\ \/ \E rid \in RequestIds, rn \in BOOLEAN :
                         AndroidWriteRequest("d1", rid, c, FALSE, rn, 0, B)
                   \/ IosWriteRequests(<<[char |-> c, offset |-> 0, value |-> B]>>)) =>
                  (last'.result \in Success /\ values'[c] = B)]_vars

\* C32: a read or write request of a peer for a characteristic that no
\* service of the store holds is answered with an error, changes no value
\* and sends no characteristic-written event.
C32_UnknownCharacteristicRejected ==
  [][(platform = "ios" /\ last'.op \in {"read", "write"}) =>
       LET targets == IF last'.op = "read" THEN {last'.char}
                      ELSE {last'.batch[i].char : i \in DOMAIN last'.batch}
       IN (\E c \in targets : c \notin DOMAIN values) =>
             /\ last'.result \in {"readNotPermitted", "writeNotPermitted",
                                  "invalidOffset"}
             /\ (last'.char \notin DOMAIN values) =>
                   last'.result = (IF last'.op = "read" THEN "readNotPermitted"
                                                        ELSE "writeNotPermitted")
             /\ values' = values
             /\ last'.events = <<>>
             /\ last'.applied = <<>>]_vars

\* A batch whose first request would change a value and whose second names
\* an unknown characteristic, answered writeNotPermitted
C32_Witness ==
  /\ platform = "ios"
  /\ last.op = "write"
  /\ Len(last.batch) = 2
  /\ last.batch[2].char = UnknownChar
  /\ last.char = UnknownChar
  /\ last.result = "writeNotPermitted"
  /\ LET req == last.batch[1]
     IN /\ req.char \in DOMAIN values
        /\ values[req.char] = <<2>>
        /\ req.offset = 0
        /\ req.value = <<1>>

\* C34: a read at offset 0 that follows a non-prepared write of V at offset 0
\* on a characteristic whose value was empty, with no operation on that
\* characteristic between the two, succeeds and returns exactly V.
C34_WriteReadRoundTrip ==
  (last.op = "read" /\ last.written # Nil) =>
     /\ last.result \in Success
     /\ last.data = last.written
     /\ values[last.char] = last.written

\* The read answered the two bytes the write before it put over the empty value
C34_Witness ==
  /\ platform \in {"android", "ios"}
  /\ last.op = "read"
  /\ last.offset = 0
  /\ last.written = <<1, 2>>
  /\ last.data = <<1, 2>>

\* C37: after a didReceiveWrite batch with two requests for one
\* characteristic the value is what applying the requests one after another
\* leaves, each checked and spliced against the value the one before it left.
C37_BatchAppliesInTurn ==
  [][(/\ platform = "ios"
      /\ last'.op = "write"
      /\ Len(last'.batch) = 2
      /\ last'.batch[1].char = last'.batch[2].char
      /\ last'.batch[1].char \in DOMAIN values) =>
       LET first == last'.batch[1]
           second == last'.batch[2]
           c == first.char
           stored == IF values[c] = Nil THEN <<>> ELSE values[c]
           afterFirst == Splice(stored, first.offset, first.value)
           afterSecond == Splice(afterFirst, second.offset, second.value)
       IN IF first.offset <= Len(stored) /\ second.offset <= Len(afterFirst)
          THEN /\ last'.result = "success"
               /\ values' = [values EXCEPT ![c] = afterSecond]
          ELSE /\ last'.result = "invalidOffset"
               /\ values' = values]_vars

\* C40: a didReceiveWrite batch that succeeds sends exactly one
\* characteristic-written event, sent when every value of the batch is
\* stored, that lists one entry per request in the order of delivery with the
\* value stored for that request; a batch that is rejected sends none.
C40_OneEventPerBatch ==
  [][(platform = "ios" /\ last'.op = "write") =>
       LET batch == last'.batch
           Stored(c) == IF values[c] = Nil THEN <<>> ELSE values[c]
       IN IF last'.result = "success"
          THEN /\ Len(last'.events) = 1
               /\ LET listed == last'.events[1]
                  IN /\ Len(listed) = Len(batch)
                     /\ \A i \in DOMAIN batch :
                          /\ listed[i].char = batch[i].char
                          /\ listed[i].value = Splice(Stored(batch[i].char),
                                                      batch[i].offset, batch[i].value)
                          /\ (\A j \in DOMAIN batch :
                                 batch[j].char = batch[i].char => j <= i) =>
                                values'[batch[i].char] = listed[i].value
          ELSE last'.events = <<>>]_vars

\* A batch of two requests for two characteristics, both stored and listed
C40_Witness ==
  /\ platform = "ios"
  /\ last.op = "write"
  /\ last.result = "success"
  /\ Len(last.batch) = 2
  /\ last.batch[1].char = "c2"
  /\ last.batch[2].char = "c1"
  /\ Len(last.events) = 1
  /\ last.events[1] = <<[char |-> "c2", value |-> <<1>>], [char |-> "c1", value |-> <<2>>]>>
  /\ values["c2"] = <<1>>
  /\ values["c1"] = <<2>>

(***************************************************************************)
(* SpecPrepared: the Kotlin module under plain writes, prepared writes and *)
(* execute-write requests                                                  *)
(***************************************************************************)
InitPrepared ==
  /\ platform = "android"
  /\ Serving
  /\ values \in [Chars -> Bytes(MaxLen)]
  /\ uuid = DistinctUuids
  /\ preparedCharacteristicWrites = <<>>
  /\ added = <<>>
  /\ evicted = {}
  /\ stagedBy = <<>>
  /\ servicesMap = OneService
  /\ hashSeed = <<"s1", "s2">>
  /\ inflight = Idle
  /\ preparedDescriptorWrites = <<>>
  /\ last = Req("init", 0, "", "", Nil)

NextPrepared ==
  \/ \E rid \in RequestIds, c \in Chars, preparedWrite \in BOOLEAN,
        responseNeeded \in {TRUE}, offset \in Offsets, bytes \in Bytes(MaxLen) :
       AndroidWriteRequest("d1", rid, c, preparedWrite, responseNeeded, offset, bytes)
  \/ \E rid \in RequestIds, execute \in BOOLEAN : OnExecuteWrite(rid, execute)

SpecPrepared == InitPrepared /\ [][NextPrepared]_vars

\* C9: staging a fragment never changes a characteristic value; an execute
\* with commit=true of an entry that took fragment A at offset 0 and fragment
\* B at offset len(A) sets the target characteristic to exactly A ++ B,
\* leaves every other value alone and removes the pending entry.
C9_PreparedCommit ==
  [][/\ last'.op = "stage" => values' = values
     /\ (/\ last'.op = "execute"
         /\ last'.result = "committed"
         /\ Len(last'.entry[1].frags) = 2
         /\ last'.entry[1].frags[1].offset = 0
         /\ last'.entry[1].frags[2].offset = Len(last'.entry[1].frags[1].bytes)) =>
           /\ values' = [values EXCEPT ![last'.char] =
                           last'.entry[1].frags[1].bytes \o last'.entry[1].frags[2].bytes]
           /\ last'.id \notin CacheIds(preparedCharacteristicWrites')]_vars

C9_Witness ==
  /\ last.op = "execute"
  /\ last.result = "committed"
  /\ last.entry[1].frags = <<[offset |-> 0, bytes |-> <<1>>], [offset |-> 1, bytes |-> <<2>>]>>
  /\ values[last.char] = <<1, 2>>
  /\ preparedCharacteristicWrites = <<>>

\* C10: an execute with commit=false changes no characteristic value (and,
\* staging changing none either, the target is as it was before staging) and
\* removes the pending entry; an execute with commit=true for an id that has
\* no pending entry, as after a cancel, changes nothing.
C10_PreparedCancel ==
  [][/\ last'.op = "stage" => values' = values
     /\ (last'.op = "execute" /\ last'.result = "cancelled") =>
           /\ values' = values
           /\ last'.id \notin CacheIds(preparedCharacteristicWrites')
     /\ \A rid \in RequestIds :
          (/\ last'.op = "execute"
           /\ rid \notin CacheIds(preparedCharacteristicWrites)
           /\ OnExecuteWrite(rid, TRUE)) =>
             /\ values' = values
             /\ preparedCharacteristicWrites' = preparedCharacteristicWrites]_vars

C10_Witness ==
  /\ last.op = "execute"
  /\ last.result = "cancelled"
  /\ last.entry[1].frags # <<>>
  /\ last.entry[1].buffer # <<>>
  /\ last.entry[1].buffer # values[last.char]
  /\ last.id \notin CacheIds(preparedCharacteristicWrites)

\* C11: a prepared fragment is accepted only at the offset that equals the
\* length of the pending buffer of its request id (0 for a new id); any other
\* offset is answered with InvalidOffset, and a fragment so answered leaves
\* the pending entries and their buffers unchanged; no fragment changes a value.
C11_GapRejected ==
  [][last'.op = "stage" =>
       /\ values' = values
       /\ last'.result \in Success \cup InvalidOffset
       /\ last'.result \in InvalidOffset =>
            Entries(preparedCharacteristicWrites') = Entries(preparedCharacteristicWrites)
       /\ last'.result \in Success =>
            LET e == CacheEntry(preparedCharacteristicWrites', last'.id)
            IN e.frags[Len(e.frags)].offset =
                 PendingLen(preparedCharacteristicWrites, last'.id)]_vars

C11_Witness ==
  /\ last.op = "stage"
  /\ last.result = "GATT_INVALID_OFFSET"
  /\ last.id \in CacheIds(preparedCharacteristicWrites)
  /\ CacheEntry(preparedCharacteristicWrites, last.id).char = last.char
  /\ CacheEntry(preparedCharacteristicWrites, last.id).buffer # <<>>

(***************************************************************************)
(* SpecQueue: the Kotlin prepared-write map under more request ids than it *)
(* holds. Ids are first staged in increasing order with one fixed          *)
(* fragment; the ids of TouchIds also take further fragments and          *)
(* fragments at wrong offsets; trimmed ids are tried again at the offset   *)
(* their buffer had reached, and executed.                                 *)
(***************************************************************************)
QueueIds == 1..MaxQueueId
TouchIds == {1}
EvictedIds == {e.rid : e \in evicted}

\* The next id never staged so far
NextId ==
  LET used == CacheIds(preparedCharacteristicWrites) \cup EvictedIds \cup {0}
  IN 1 + CHOOSE id \in used : \A other \in used : other <= id

InitQueue ==
  /\ platform = "android"
  /\ Serving
  /\ values = [c \in Chars |-> <<>>]
  /\ uuid = DistinctUuids
  /\ preparedCharacteristicWrites = <<>>
  /\ added = <<>>
  /\ evicted = {}
  /\ stagedBy = <<>>
  /\ servicesMap = OneService
  /\ hashSeed = <<"s1", "s2">>
  /\ inflight = Idle
  /\ preparedDescriptorWrites = <<>>
  /\ last = Req("init", 0, "", "", Nil)

NextQueue ==
  \/ \E rid \in QueueIds :
       /\ rid = NextId
       /\ AndroidWriteRequest("d1", rid, "c1", TRUE, TRUE, 0, <<1>>)
  \/ \E rid \in TouchIds, offset \in 0..MaxLen, bytes \in {<<>>, <<1>>} :
       AndroidWriteRequest("d1", rid, "c1", TRUE, TRUE, offset, bytes)
  \/ \E e \in evicted :
       /\ e.rid \notin CacheIds(preparedCharacteristicWrites)
       /\ AndroidWriteRequest("d1", e.rid, e.char, TRUE, TRUE, Len(e.buffer), <<1>>)
  \/ \E rid \in EvictedIds, execute \in BOOLEAN :
       /\ rid \notin CacheIds(preparedCharacteristicWrites)
       /\ OnExecuteWrite(rid, execute)

SpecQueue == InitQueue /\ [][NextQueue]_vars

\* C16: the map never holds more than 16 pending ids, and when a fragment
\* of a further id is stored in a full map the entry that goes is the one
\* added earliest.
C16_EarliestAddedEvicted ==
  [][/\ Len(preparedCharacteristicWrites') <= 16
     /\ (/\ last'.op = "stage"
         /\ last'.result \in Success
         /\ last'.id \notin CacheIds(preparedCharacteristicWrites)
         /\ Len(preparedCharacteristicWrites) = 16) =>
           CacheIds(preparedCharacteristicWrites) \ CacheIds(preparedCharacteristicWrites')
             = {Head(added)}]_vars

\* C17: trimming an entry changes no value; an execute for a trimmed id
\* changes nothing; a fragment for a trimmed id at the offset its buffer had
\* reached is answered with InvalidOffset.
C17_EvictedNeverApplied ==
  [][/\ last'.op = "stage" => values' = values
     /\ (/\ last'.op = "execute"
         /\ last'.id \in EvictedIds
         /\ last'.id \notin CacheIds(preparedCharacteristicWrites)) =>
           /\ values' = values
           /\ preparedCharacteristicWrites' = preparedCharacteristicWrites
     /\ \A e \in evicted, bytes \in {<<>>, <<1>>} :
          (/\ last'.op = "stage"
           /\ last'.id = e.rid
           /\ e.rid \notin CacheIds(preparedCharacteristicWrites)
           /\ AndroidWriteRequest("d1", e.rid, e.char, TRUE, TRUE, Len(e.buffer), bytes)) =>
             last'.result \in InvalidOffset]_vars

\* C17 as the code has it: the same, for a trimmed entry whose buffer was
\* not empty (at offset 0 a fragment starts a new entry for the id).
C17_EvictedNonEmptyNeverApplied ==
  [][/\ last'.op = "stage" => values' = values
     /\ (/\ last'.op = "execute"
         /\ last'.id \in EvictedIds
         /\ last'.id \notin CacheIds(preparedCharacteristicWrites)) =>
           /\ values' = values
           /\ preparedCharacteristicWrites' = preparedCharacteristicWrites
     /\ \A e \in evicted, bytes \in {<<>>, <<1>>} :
          (/\ last'.op = "stage"
           /\ last'.id = e.rid
           /\ e.buffer # <<>>
           /\ e.rid \notin CacheIds(preparedCharacteristicWrites)
           /\ AndroidWriteRequest("d1", e.rid, e.char, TRUE, TRUE, Len(e.buffer), bytes)) =>
             last'.result \in InvalidOffset]_vars

C17_Witness ==
  /\ last.op = "stage"
  /\ last.result = "GATT_INVALID_OFFSET"
  /\ last.id \notin CacheIds(preparedCharacteristicWrites)
  /\ \E e \in evicted : e.rid = last.id /\ e.buffer # <<>>
  /\ Len(preparedCharacteristicWrites) = 16

(***************************************************************************)
(* SpecPair: the Kotlin prepared-write handlers under two request ids,     *)
(* with characteristics of distinct uuids or of one shared uuid            *)
(***************************************************************************)
PairIds == {1, 2}

InitPair ==
  /\ platform = "android"
  /\ Serving
  /\ values = [c \in Chars |-> <<>>]
  /\ uuid \in {DistinctUuids, SharedUuid}
  /\ preparedCharacteristicWrites = <<>>
  /\ added = <<>>
  /\ evicted = {}
  /\ stagedBy = <<>>
  /\ servicesMap = OneService
  /\ hashSeed = <<"s1", "s2">>
  /\ inflight = Idle
  /\ preparedDescriptorWrites = <<>>
  /\ last = Req("init", 0, "", "", Nil)

NextPair ==
  \/ \E rid \in PairIds, c \in Chars, offset \in {0, 1}, bytes \in {<<1>>} :
       AndroidWriteRequest("d1", rid, c, TRUE, TRUE, offset, bytes)
  \/ \E rid \in PairIds, execute \in BOOLEAN : OnExecuteWrite(rid, execute)

SpecPair == InitPair /\ [][NextPair]_vars

\* C12: the first fragment of a request id fixes its target: a later
\* fragment of the same id for another characteristic is answered with
\* InvalidOffset, whatever its offset, and the pending entry is untouched.
C12_TargetFixed ==
  [][(/\ last'.op = "stage"
      /\ last'.id \in CacheIds(preparedCharacteristicWrites)
      /\ last'.char # CacheEntry(preparedCharacteristicWrites, last'.id).char) =>
        /\ last'.result \in InvalidOffset
        /\ Entries(preparedCharacteristicWrites') = Entries(preparedCharacteristicWrites)]_vars

\* C18: an execute for a request id without a pending entry reports nothing
\* and leaves every value and every pending entry unchanged, whatever its
\* commit flag.
C18_UnknownIdNoOp ==
  [][(/\ last'.op = "execute"
      /\ last'.id \notin CacheIds(preparedCharacteristicWrites)) =>
        /\ last'.result = "nothing"
        /\ values' = values
        /\ preparedCharacteristicWrites' = preparedCharacteristicWrites]_vars

C18_Witness ==
  /\ last.op = "execute"
  /\ last.result = "nothing"
  /\ preparedCharacteristicWrites # <<>>
  /\ preparedCharacteristicWrites[1].buffer # <<>>
  /\ values[preparedCharacteristicWrites[1].char] # preparedCharacteristicWrites[1].buffer

\* C19: a fragment or an execute of request id r1 leaves the pending entry
\* of every other id r2 as it was: still pending (the map not being full)
\* with the same target and buffer.
C19_RequestIdIsolation ==
  [][\A r2 \in CacheIds(preparedCharacteristicWrites) :
       (last'.op \in {"stage", "execute"} /\ last'.id # r2) =>
          /\ Len(preparedCharacteristicWrites) < PreparedCapacity =>
               r2 \in CacheIds(preparedCharacteristicWrites')
          /\ r2 \in CacheIds(preparedCharacteristicWrites') =>
               CacheEntry(preparedCharacteristicWrites', r2)
                 = CacheEntry(preparedCharacteristicWrites, r2)]_vars

C19_Witness ==
  /\ last.op = "stage"
  /\ last.result = "GATT_SUCCESS"
  /\ Len(preparedCharacteristicWrites) = 2
  /\ preparedCharacteristicWrites[1].char = preparedCharacteristicWrites[2].char
  /\ preparedCharacteristicWrites[1].buffer = <<1>>
  /\ preparedCharacteristicWrites[2].buffer = <<1, 1>>

\* C14: an execute that writes a pending buffer sends one event naming the
\* written characteristic; an execute that cancels or finds no entry sends
\* none.
C14_CommitEmitsEvent ==
  last.op = "execute" =>
     IF last.result = "committed"
     THEN last.events = <<<<last.char>>>>
     ELSE last.events = <<>>

(***************************************************************************)
(* SpecDesc: the Kotlin module under characteristic and descriptor         *)
(* requests that share request ids                                         *)
(***************************************************************************)
\* The descriptors the platform hands to the descriptor callbacks
Descriptors == {"e1"}

\* The characteristics empty, the descriptor empty or without a value
InitDesc ==
  /\ platform = "android"
  /\ Serving
  /\ values \in [Chars \cup Descriptors -> {<<>>, Nil}]
  /\ \A c \in Chars : values[c] = <<>>
  /\ uuid = [x \in Chars \cup Descriptors |-> x]
  /\ preparedCharacteristicWrites = <<>>
  /\ added = <<>>
  /\ evicted = {}
  /\ stagedBy = <<>>
  /\ servicesMap = OneService
  /\ hashSeed = <<"s1", "s2">>
  /\ inflight = Idle
  /\ preparedDescriptorWrites = <<>>
  /\ last = Req("init", 0, "", "", Nil)

\* Fragments of one byte, plain descriptor writes of one byte or two; the
\* characteristic is written through prepared writes only
NextDesc ==
  \/ \E d \in Descriptors, offset \in Offsets : AndroidDescriptorReadRequest(d, offset)
  \/ \E rid \in RequestIds, d \in Descriptors, offset \in {0, 1} :
       AndroidDescriptorWriteRequest("d1", rid, d, TRUE, TRUE, offset, <<2>>)
  \/ \E rid \in RequestIds, d \in Descriptors, offset \in Offsets,
        bytes \in {<<1>>, <<1, 1>>} :
       AndroidDescriptorWriteRequest("d1", rid, d, FALSE, TRUE, offset, bytes)
  \/ \E rid \in RequestIds, offset \in {0, 1} :
       AndroidWriteRequest("d1", rid, "c1", TRUE, TRUE, offset, <<1>>)
  \/ \E rid \in RequestIds, execute \in BOOLEAN : OnExecuteWrite(rid, execute)

SpecDesc == InitDesc /\ [][NextDesc]_vars

\* C33: a descriptor request is answered and stored by the rules of the
\* characteristic request of the same kind (read, plain write, prepared
\* write, execute), and the pending descriptor entry and the pending
\* characteristic entry of one request id leave each other alone: staging
\* one does not touch the other, and an execute applies or drops each for
\* its own target.
C33_DescriptorsLikeCharacteristics ==
  [][LET d == last'.char
         q == last'.batch[1]
     IN /\ last'.op = "descriptorRead" =>
             LET r == AndroidReadResponse(values[d], last'.offset)
             IN /\ last'.result = r.status
                /\ last'.data = r.data
                /\ UNCHANGED <<values, preparedCharacteristicWrites,
                               preparedDescriptorWrites>>
        /\ last'.op = "descriptorWrite" =>
             LET r == PlainWrite(values[d], q.offset, q.value)
             IN /\ last'.result = r.status
                /\ values' = [values EXCEPT ![d] = r.value]
                /\ UNCHANGED <<preparedCharacteristicWrites, preparedDescriptorWrites>>
        /\ last'.op = "descriptorStage" =>
             LET r == PreparedStage(preparedDescriptorWrites, last'.id, d,
                                    q.offset, q.value)
             IN /\ last'.result = r.status
                /\ preparedDescriptorWrites' = r.cache
                /\ UNCHANGED <<values, preparedCharacteristicWrites>>
        /\ last'.op \in {"stage", "write", "read"} =>
             /\ UNCHANGED preparedDescriptorWrites
             /\ \A e \in Descriptors : values'[e] = values[e]
        /\ last'.op = "execute" =>
             LET rid == last'.id
                 Pending(cache) == rid \in CacheIds(cache)
                 commit == \/ last'.result = "committed"
                           \/ \E f \in DOMAIN last'.descriptor :
                                last'.descriptor[f].committed
                 After(cache, x) ==
                   IF Pending(cache) /\ commit /\ CacheEntry(cache, rid).char = x
                   THEN CacheEntry(cache, rid).buffer
                   ELSE values[x]
             IN /\ \A c \in Chars : values'[c] = After(preparedCharacteristicWrites, c)
                /\ \A e \in Descriptors : values'[e] = After(preparedDescriptorWrites, e)
                /\ ~Pending(preparedCharacteristicWrites')
                /\ ~Pending(preparedDescriptorWrites')
                /\ (Pending(preparedCharacteristicWrites) /\ Pending(preparedDescriptorWrites))
                     => (last'.result = "committed") = last'.descriptor[1].committed]_vars

\* An execute that committed a pending characteristic entry and a pending
\* descriptor entry of one request id with different bytes, each to its own
\* target
C33_Witness ==
  /\ last.op = "execute"
  /\ last.result = "committed"
  /\ last.entry # <<>>
  /\ last.entry[1].buffer = <<1>>
  /\ last.descriptor = <<[char |-> "e1", buffer |-> <<2, 2>>, committed |-> TRUE]>>
  /\ values["c1"] = <<1>>
  /\ values["e1"] = <<2, 2>>

(***************************************************************************)
(* The service store: servicesMap and the functions that change or list it *)
(***************************************************************************)
\* What a lookup answers when no characteristic matches (null / nil)
NoChar == ""

\* service.characteristics ?? [] (Swift); the Kotlin list is never null
Characteristics(service) ==
  IF service.listed THEN service.characteristics ELSE <<>>

\* characteristics.find { it.uuid == ... } / first(where:): the first match
FirstWithUuid(uuids, chars, u) ==
  LET hits == {i \in DOMAIN chars : uuids[chars[i]] = u}
  IN IF hits = {} THEN NoChar
     ELSE chars[CHOOSE i \in hits : \A j \in hits : i <= j]

\* The keys of a Swift Dictionary in the order this process iterates them
DictOrder(seed, map) == SelectSeq(seed, LAMBDA u : u \in DOMAIN map)

\* The characteristics of the services visited in the given order
RECURSIVE FlatMap(_, _)
FlatMap(map, order) ==
  IF order = <<>> THEN <<>>
  ELSE Characteristics(map[Head(order)]) \o FlatMap(map, Tail(order))

\* Swift getCharacteristic(_ uuid:): every service, in Dictionary order
GetCharacteristic(seed, map, uuids, u) ==
  FirstWithUuid(uuids, FlatMap(map, DictOrder(seed, map)), u)

\* The characteristic objects of the services in a store
Held(map) ==
  UNION {{map[k].characteristics[i] : i \in DOMAIN map[k].characteristics} : k \in DOMAIN map}

\* A removal that empties the function
Restrict_Nothing(f, keep) == [x \in {} |-> f[x]]

\* A function without the arguments outside keep
Restrict(f, keep) == [x \in DOMAIN f \cap keep |-> f[x]]

\* A store function's record in last
StoreCall(name, serviceUuid, c, result) ==
  [Req(name, 0, c, result, Nil) EXCEPT !.service = serviceUuid]

\* An addService that puts a new service over the one already there
AndroidAddService_Replaces(u, primary) ==
  /\ platform = "android"
  /\ servicesMap' = [k \in DOMAIN servicesMap \cup {u} |->
                       IF k = u THEN [isPrimary |-> primary, listed |-> TRUE,
                                      characteristics |-> <<>>]
                       ELSE servicesMap[k]]
  /\ last' = [StoreCall("addService", u, "", "ok")
                EXCEPT !.native = IF gattServer # 0 THEN <<"addService">> ELSE <<>>]
  /\ UNCHANGED <<values, uuid, preparedCharacteristicWrites, added, evicted, stagedBy,
                 hashSeed, inflight, preparedDescriptorWrites>>
  /\ UNCHANGED advVars

\* Kotlin Function("addService")
AndroidAddService(u, primary) ==
  /\ platform = "android"
  /\ IF u \in DOMAIN servicesMap
     THEN /\ last' = StoreCall("addService", u, "", "Service already added")
          /\ UNCHANGED servicesMap
     ELSE /\ servicesMap' = (u :> [isPrimary |-> primary, listed |-> TRUE,
                                   characteristics |-> <<>>]) @@ servicesMap
          /\ last' = [StoreCall("addService", u, "", "ok")
                        EXCEPT !.native = IF gattServer # 0 THEN <<"addService">> ELSE <<>>]
  /\ UNCHANGED <<values, uuid, preparedCharacteristicWrites, added, evicted, stagedBy,
                 hashSeed, inflight, preparedDescriptorWrites>>
  /\ UNCHANGED advVars

\* Swift Function("addService"); listed is whether the CBMutableService the
\* framework makes has a characteristics array or nil
IosAddService(u, primary, listed) ==
  /\ platform = "ios"
  /\ IF u \in DOMAIN servicesMap
     THEN /\ last' = StoreCall("addService", u, "", "Service already added")
          /\ UNCHANGED servicesMap
     ELSE /\ servicesMap' = (u :> [isPrimary |-> primary, listed |-> listed,
                                   characteristics |-> <<>>]) @@ servicesMap
          /\ last' = [StoreCall("addService", u, "", "ok")
                        EXCEPT !.native = IF manager THEN <<"add">> ELSE <<>>]
  /\ UNCHANGED <<values, uuid, preparedCharacteristicWrites, added, evicted, stagedBy,
                 hashSeed, inflight, preparedDescriptorWrites>>
  /\ UNCHANGED advVars

\* Function("removeService") of both modules: servicesMap.remove(uuid) and
\* requireNotNull (Kotlin), guard and removeValue(forKey:) (Swift)
RemoveService(u) ==
  /\ platform \in {"android", "ios"}
  /\ IF u \notin DOMAIN servicesMap
     THEN /\ last' = StoreCall("removeService", u, "", "Service not found")
          /\ UNCHANGED <<servicesMap, values, uuid>>
     ELSE /\ servicesMap' = Restrict(servicesMap, DOMAIN servicesMap \ {u})
          /\ values' = Restrict(values, Held(servicesMap'))
          /\ uuid' = Restrict(uuid, Held(servicesMap'))
          /\ last' = [StoreCall("removeService", u, "", "ok")
                        EXCEPT !.native = IF platform = "android"
                                          THEN (IF gattServer # 0 THEN <<"removeService">> ELSE <<>>)
                                          ELSE (IF manager THEN <<"remove">> ELSE <<>>)]
  /\ UNCHANGED <<preparedCharacteristicWrites, added, evicted, stagedBy, hashSeed, inflight, preparedDescriptorWrites>>
  /\ UNCHANGED advVars

\* A removeAllServices that fails on an empty store
RemoveAllServices_FailsWhenEmpty ==
  /\ platform \in {"android", "ios"}
  /\ servicesMap' = <<>>
  /\ values' = <<>>
  /\ uuid' = <<>>
  /\ last' = StoreCall("removeAllServices", "", "",
                       IF servicesMap = <<>> THEN "Service not found" ELSE "ok")
  /\ UNCHANGED <<preparedCharacteristicWrites, added, evicted, stagedBy, hashSeed,
                 inflight, preparedDescriptorWrites>>
  /\ UNCHANGED advVars

\* Function("removeAllServices") of both modules
RemoveAllServices ==
  /\ platform \in {"android", "ios"}
  /\ servicesMap' = <<>>
  /\ values' = <<>>
  /\ uuid' = <<>>
  /\ last' = [StoreCall("removeAllServices", "", "", "ok")
                EXCEPT !.native = IF platform = "android"
                                  THEN (IF gattServer # 0 THEN <<"clearServices">> ELSE <<>>)
                                  ELSE (IF manager THEN <<"removeAllServices">> ELSE <<>>)]
  /\ UNCHANGED <<preparedCharacteristicWrites, added, evicted, stagedBy, hashSeed, inflight, preparedDescriptorWrites>>
  /\ UNCHANGED advVars

\* Kotlin Function("addCharacteristic"): service.addCharacteristic appends;
\* c is the new BluetoothGattCharacteristic
AndroidAddCharacteristic(serviceUuid, u, value, c) ==
  /\ platform = "android"
  /\ c \in CharObjects \ DOMAIN values
  /\ IF serviceUuid \notin DOMAIN servicesMap
     THEN /\ last' = StoreCall("addCharacteristic", serviceUuid, "", "Service not found")
          /\ UNCHANGED <<servicesMap, values, uuid>>
     ELSE /\ servicesMap' = [servicesMap EXCEPT ![serviceUuid].characteristics = Append(@, c)]
          /\ values' = (c :> value) @@ values
          /\ uuid' = (c :> u) @@ uuid
          /\ last' = StoreCall("addCharacteristic", serviceUuid, c, "ok")
  /\ UNCHANGED <<preparedCharacteristicWrites, added, evicted, stagedBy, hashSeed, inflight, preparedDescriptorWrites>>
  /\ UNCHANGED advVars

\* Swift Function("addCharacteristic"): service.characteristics?.append(...)
\* appends when the array is there and does nothing when it is nil
IosAddCharacteristic(serviceUuid, u, value, c) ==
  /\ platform = "ios"
  /\ c \in CharObjects \ DOMAIN values
  /\ IF serviceUuid \notin DOMAIN servicesMap
     THEN /\ last' = StoreCall("addCharacteristic", serviceUuid, "", "Service not found")
          /\ UNCHANGED <<servicesMap, values, uuid>>
     ELSE IF servicesMap[serviceUuid].listed
     THEN /\ servicesMap' = [servicesMap EXCEPT ![serviceUuid].characteristics = Append(@, c)]
          /\ values' = (c :> value) @@ values
          /\ uuid' = (c :> u) @@ uuid
          /\ last' = StoreCall("addCharacteristic", serviceUuid, c, "ok")
     ELSE /\ last' = StoreCall("addCharacteristic", serviceUuid, c, "ok")
          /\ UNCHANGED <<servicesMap, values, uuid>>
  /\ UNCHANGED <<preparedCharacteristicWrites, added, evicted, stagedBy, hashSeed, inflight, preparedDescriptorWrites>>
  /\ UNCHANGED advVars

\* Kotlin Function("getCharacteristics") { serviceUuid: String? -> }: the
\* body is empty, the function answers Unit
AndroidGetCharacteristics(serviceUuid) ==
  /\ platform = "android"
  /\ last' = StoreCall("getCharacteristics", serviceUuid, "", "Unit")
  /\ UNCHANGED advVars
  /\ UNCHANGED gattVars

\* Swift Function("getCharacteristics"); serviceUuid "" is the omitted uuid
IosGetCharacteristics(serviceUuid) ==
  /\ platform = "ios"
  /\ last' = IF serviceUuid = ""
             THEN [StoreCall("getCharacteristics", serviceUuid, "", "ok")
                     EXCEPT !.returned = FlatMap(servicesMap, DictOrder(hashSeed, servicesMap))]
             ELSE IF serviceUuid \notin DOMAIN servicesMap
             THEN StoreCall("getCharacteristics", serviceUuid, "", "Service not found")
             ELSE [StoreCall("getCharacteristics", serviceUuid, "", "ok")
                     EXCEPT !.returned = Characteristics(servicesMap[serviceUuid])]
  /\ UNCHANGED advVars
  /\ UNCHANGED gattVars

(***************************************************************************)
(* updateCharacteristic                                                    *)
(***************************************************************************)
\* The devices that enabled notifications: the Kotlin module puts no
\* descriptor on a characteristic and keeps no record of a subscription
AndroidSubscribers == {}

\* The orders in which for (device in devices) may visit a HashSet
Orders(ds) ==
  {o \in [1..Cardinality(ds) -> ds] : \A d \in ds : \E i \in DOMAIN o : o[i] = d}

\* gattServer?.notifyCharacteristicChanged(...) == BluetoothStatusCodes.SUCCESS
NotifySuccess(ok, device) == gattServer # 0 /\ ok[device]

\* A loop that goes on to the next device after a failed send
Attempted_All(order, ok) == DOMAIN order

\* The devices the loop reaches: all of them, or those up to the first failure
Attempted(order, ok) ==
  {i \in DOMAIN order : \A j \in 1..(i - 1) : NotifySuccess(ok, order[j])}

\* A loop that answers with the outcome of the last send alone
AndroidUpdateResult_LastSend(order, ok) ==
  IF order = <<>> \/ NotifySuccess(ok, order[Len(order)]) THEN "true" ELSE "false"

\* The loop of Function("updateCharacteristic"): false at the first failure
AndroidUpdateResult(order, ok) ==
  IF \A i \in DOMAIN order : NotifySuccess(ok, order[i]) THEN "true" ELSE "false"

\* An updateCharacteristic that checks the permission before it sets the value
AndroidUpdateCharacteristic_PermissionFirst(serviceUuid, u, value, granted, order, ok) ==
  /\ platform = "android"
  /\ LET c == IF serviceUuid \in DOMAIN servicesMap
              THEN FirstWithUuid(uuid, servicesMap[serviceUuid].characteristics, u)
              ELSE NoChar
         call == [Req("update", 0, c, "", value) EXCEPT !.service = serviceUuid,
                                                          !.uuid = u]
     IN IF c = NoChar
        THEN /\ last' = [call EXCEPT !.result = "Characteristic not found"]
             /\ UNCHANGED values
        ELSE IF ~granted
        THEN /\ last' = [call EXCEPT !.result = "MissingPermissions"]
             /\ UNCHANGED values
        ELSE /\ values' = [values EXCEPT ![c] = value]
             /\ last' = [call EXCEPT !.result = AndroidUpdateResult(order, ok)]
  /\ UNCHANGED <<uuid, preparedCharacteristicWrites, added, evicted, stagedBy,
                 servicesMap, hashSeed, inflight, preparedDescriptorWrites>>
  /\ UNCHANGED advVars

\* Kotlin Function("updateCharacteristic"); granted is hasGrantedPermissions,
\* ok the outcome each device's notification would have
AndroidUpdateCharacteristic(serviceUuid, u, value, granted, order, ok) ==
  /\ platform = "android"
  /\ LET c == IF serviceUuid \in DOMAIN servicesMap
              THEN FirstWithUuid(uuid, servicesMap[serviceUuid].characteristics, u)
              ELSE NoChar
         call == [Req("update", 0, c, "", value) EXCEPT !.service = serviceUuid,
                                                          !.uuid = u]
     IN IF serviceUuid \notin DOMAIN servicesMap
        THEN /\ last' = [call EXCEPT !.result = "Service not found"]
             /\ UNCHANGED values
        ELSE IF c = NoChar
        THEN /\ last' = [call EXCEPT !.result = "Characteristic not found"]
             /\ UNCHANGED values
        ELSE /\ values' = [values EXCEPT ![c] = value]
             /\ last' = IF granted
                        THEN [call EXCEPT !.result = AndroidUpdateResult(order, ok),
                                          !.order = order,
                                          !.sends = {[device |-> order[i],
                                                      ok |-> NotifySuccess(ok, order[i])] :
                                                        i \in Attempted(order, ok)}]
                        ELSE [call EXCEPT !.result = "MissingPermissions"]
  /\ UNCHANGED <<uuid, preparedCharacteristicWrites, added, evicted, stagedBy,
                 servicesMap, hashSeed, inflight, preparedDescriptorWrites>>
  /\ UNCHANGED advVars

\* Swift Function("updateCharacteristic"): manager?.updateValue(...) ?? true;
\* sent is what CBPeripheralManager.updateValue answers
IosUpdateCharacteristic(serviceUuid, u, value, sent) ==
  /\ platform = "ios"
  /\ LET c == IF serviceUuid \in DOMAIN servicesMap
              THEN FirstWithUuid(uuid, Characteristics(servicesMap[serviceUuid]), u)
              ELSE NoChar
         call == [Req("update", 0, c, "", value) EXCEPT !.service = serviceUuid,
                                                          !.uuid = u]
     IN IF serviceUuid \notin DOMAIN servicesMap
        THEN /\ last' = [call EXCEPT !.result = "Service not found"]
             /\ UNCHANGED values
        ELSE IF c = NoChar
        THEN /\ last' = [call EXCEPT !.result = "Characteristic not found"]
             /\ UNCHANGED values
        ELSE /\ values' = [values EXCEPT ![c] = value]
             /\ last' = IF manager
                        THEN [call EXCEPT !.result = IF sent THEN "true" ELSE "false",
                                          !.sends = {[device |-> "subscribedCentrals",
                                                      ok |-> sent]}]
                        ELSE [call EXCEPT !.result = "true"]
  /\ UNCHANGED <<uuid, preparedCharacteristicWrites, added, evicted, stagedBy,
                 servicesMap, hashSeed, inflight, preparedDescriptorWrites>>
  /\ UNCHANGED advVars

(***************************************************************************)
(* SpecPeers: connections, prepared writes of the connected devices and    *)
(* updateCharacteristic                                                    *)
(***************************************************************************)
InitPeers ==
  /\ platform \in {"android", "ios"}
  /\ AdvIdle \/ Serving
  /\ values = [c \in Chars |-> <<>>]
  /\ uuid = DistinctUuids
  /\ preparedCharacteristicWrites = <<>>
  /\ added = <<>>
  /\ evicted = {}
  /\ stagedBy = <<>>
  /\ servicesMap = OneService
  /\ hashSeed = <<"s1", "s2">>
  /\ inflight = Idle
  /\ preparedDescriptorWrites = <<>>
  /\ last = Req("init", 0, "", "", Nil)

NextPeers ==
  \/ \E device \in Devices, success \in BOOLEAN, newState \in ConnectionStates :
       OnConnectionStateChange(device, success, newState)
  \/ \E device \in devices, offset \in {0, 1} :
       AndroidWriteRequest(device, 1, "c1", TRUE, TRUE, offset, <<1>>)
  \/ \E execute \in BOOLEAN : OnExecuteWrite(1, execute)
  \/ \E serviceUuid \in ServiceUuids, u \in Chars \cup {UnknownChar},
        granted \in BOOLEAN, order \in Orders(devices), ok \in [devices -> BOOLEAN] :
       AndroidUpdateCharacteristic(serviceUuid, u, <<2>>, granted, order, ok)
  \/ \E serviceUuid \in ServiceUuids, u \in Chars \cup {UnknownChar}, sent \in BOOLEAN :
       IosUpdateCharacteristic(serviceUuid, u, <<2>>, sent)

SpecPeers == InitPeers /\ [][NextPeers]_vars

\* C15: when a device leaves the connected set every pending entry it
\* staged is discarded, and the connection callback changes no value.
C15_DisconnectDiscards ==
  [][last'.op = "connection" =>
       /\ values' = values
       /\ \A rid \in DOMAIN stagedBy :
            stagedBy[rid] \in devices \ devices' =>
              rid \notin CacheIds(preparedCharacteristicWrites')]_vars

\* C21: an updateCharacteristic whose service holds a characteristic with the
\* given uuid stores the new value in it whatever it answers (true, false or
\* MissingPermissions); one whose service or characteristic does not exist
\* fails with a not-found error, changes no value and attempts no send.
C21_UpdateStoresFirst ==
  [][last'.op = "update" =>
       LET found == /\ last'.service \in DOMAIN servicesMap
                    /\ \E c \in Held(servicesMap) :
                         /\ \E i \in DOMAIN servicesMap[last'.service].characteristics :
                              servicesMap[last'.service].characteristics[i] = c
                         /\ uuid[c] = last'.uuid
       IN IF found
          THEN /\ last'.result \in {"true", "false", "MissingPermissions"}
               /\ uuid[last'.char] = last'.uuid
               /\ values' = [values EXCEPT ![last'.char] = last'.data]
          ELSE /\ last'.result \in {"Service not found", "Characteristic not found"}
               /\ values' = values
               /\ last'.sends = {}]_vars

C21_Witness ==
  /\ last.op = "update"
  /\ last.result = "MissingPermissions"
  /\ values[last.char] = last.data

\* C20: an updateCharacteristic that returns answers true exactly when every
\* notification it attempted succeeded, and then it attempted one for every
\* connected device (none when there is none).
C20_UpdateResult ==
  (last.op = "update" /\ last.result \in {"true", "false"}) =>
     /\ last.result = "true" <=> \A s \in last.sends : s.ok
     /\ (last.result = "true" /\ platform = "android") =>
          {s.device : s \in last.sends} = devices
     /\ values[last.char] = last.data

C20_Witness ==
  /\ last.op = "update"
  /\ last.result = "false"
  /\ \E s \in last.sends : s.ok
  /\ \E s \in last.sends : ~s.ok

\* C38: an updateCharacteristic whose send to a device fails returns false
\* at that device: the devices the loop had not reached get no attempt, the
\* ones before it were sent to with success, and the new value is stored.
C38_StopsAtFirstFailure ==
  (last.op = "update" /\ platform = "android" /\ last.result \in {"true", "false"}) =>
     LET order == last.order
         SentTo(i) == {s \in last.sends : s.device = order[i]}
         failing == {i \in DOMAIN order : \E s \in SentTo(i) : ~s.ok}
     IN /\ {order[i] : i \in DOMAIN order} = devices
        /\ last.result = "false" <=> failing # {}
        /\ \A i \in failing :
             /\ \A j \in DOMAIN order : j > i => SentTo(j) = {}
             /\ \A j \in DOMAIN order : j < i => SentTo(j) = {[device |-> order[j], ok |-> TRUE]}
        /\ values[last.char] = last.data

\* The send to the first of two connected devices failed, the second got none
C38_Witness ==
  /\ platform = "android"
  /\ last.op = "update"
  /\ last.result = "false"
  /\ devices = {"d1", "d2"}
  /\ last.order = <<"d2", "d1">>
  /\ last.sends = {[device |-> "d2", ok |-> FALSE]}
  /\ values[last.char] = <<2>>

\* C22: updateCharacteristic attempts a notification only for a device that is
\* connected and subscribed (on iOS only through the manager's own set of
\* subscribed centrals).
C22_FanOutSubscribedOnly ==
  last.op = "update" =>
    \A s \in last.sends :
      IF platform = "android"
      THEN s.device \in devices \cap AndroidSubscribers
      ELSE s.device = "subscribedCentrals"

\* C23: a connection callback with success and Connected adds its device to
\* the connected set, one with success and Disconnected or with a failure
\* status removes it, any other leaves the set as it is; no other device is
\* touched and no request handler changes the set.
C23_ConnectedSet ==
  [][IF last'.op = "connection"
     THEN devices' = (IF last'.result = "Connected"
                      THEN devices \cup {last'.device}
                      ELSE IF last'.result \in {"Disconnected", "Failure"}
                      THEN devices \ {last'.device}
                      ELSE devices)
     ELSE devices' = devices]_vars

C23_Witness ==
  /\ last.op = "connection"
  /\ last.result = "Connecting"
  /\ last.device \in devices
  /\ devices # {last.device}

(***************************************************************************)
(* SpecRace: a write callback on the callback thread, step by step, with   *)
(* updateCharacteristic called meanwhile on the application's thread       *)
(***************************************************************************)
\* onCharacteristicWriteRequest, plain branch: offset <= characteristic.value.size
AndroidWriteCheck(rid, c, offset, bytes) ==
  /\ platform = "android"
  /\ inflight.pc = "idle"
  /\ c \in DOMAIN values
  /\ values[c] # Nil
  /\ LET request == <<[char |-> c, offset |-> offset, value |-> bytes]>>
     IN IF offset <= Len(values[c])
        THEN /\ inflight' = [Idle EXCEPT !.pc = "checked", !.rid = rid, !.char = c,
                                         !.offset = offset, !.bytes = bytes]
             /\ last' = [Req("check", rid, c, "", Nil) EXCEPT !.batch = request]
        ELSE /\ inflight' = Idle
             /\ last' = [Req("write", rid, c, "GATT_INVALID_OFFSET", values[c])
                           EXCEPT !.batch = request]
  /\ UNCHANGED <<values, uuid, preparedCharacteristicWrites, added, evicted, stagedBy,
                 servicesMap, hashSeed, preparedDescriptorWrites>>
  /\ UNCHANGED advVars

\* characteristic.value.sliceArray(0 until offset): the value is read again
AndroidWriteSlice ==
  /\ platform = "android"
  /\ inflight.pc = "checked"
  /\ LET v == values[inflight.char]
         request == <<[char |-> inflight.char, offset |-> inflight.offset,
                       value |-> inflight.bytes]>>
     IN IF inflight.offset <= Len(v)
        THEN /\ inflight' = [inflight EXCEPT !.pc = "sliced",
                                             !.slice = SliceArray(v, 0, inflight.offset)]
             /\ last' = [Req("slice", inflight.rid, inflight.char, "", Nil)
                           EXCEPT !.batch = request]
        ELSE /\ inflight' = Idle
             /\ last' = [Req("write", inflight.rid, inflight.char,
                             "IndexOutOfBoundsException", v)
                           EXCEPT !.batch = request]
  /\ UNCHANGED <<values, uuid, preparedCharacteristicWrites, added, evicted, stagedBy,
                 servicesMap, hashSeed, preparedDescriptorWrites>>
  /\ UNCHANGED advVars

\* characteristic.setValue(... + value) and the response
AndroidWriteSet ==
  /\ platform = "android"
  /\ inflight.pc = "sliced"
  /\ values' = [values EXCEPT ![inflight.char] = inflight.slice \o inflight.bytes]
  /\ last' = [Req("write", inflight.rid, inflight.char, "GATT_SUCCESS",
                  inflight.slice \o inflight.bytes)
                EXCEPT !.batch = <<[char |-> inflight.char, offset |-> inflight.offset,
                                    value |-> inflight.bytes]>>]
  /\ inflight' = Idle
  /\ UNCHANGED <<uuid, preparedCharacteristicWrites, added, evicted, stagedBy,
                 servicesMap, hashSeed, preparedDescriptorWrites>>
  /\ UNCHANGED advVars

\* didReceiveWrite, first loop: the stored values are read and the new ones
\* collected
IosWriteCollect(requests) ==
  /\ platform = "ios"
  /\ inflight.pc = "idle"
  /\ LET r == IosCollect(values, requests, 1, <<>>)
     IN IF r.status = "success"
        THEN /\ inflight' = [Idle EXCEPT !.pc = "collected", !.requests = requests,
                                         !.chars = r.chars]
             /\ last' = [Req("collect", 0, requests[1].char, "", Nil)
                           EXCEPT !.batch = requests]
        ELSE /\ inflight' = Idle
             /\ last' = [Req("write", 0, requests[r.respondedTo].char, r.status, Nil)
                           EXCEPT !.batch = requests]
  /\ UNCHANGED <<values, uuid, preparedCharacteristicWrites, added, evicted, stagedBy,
                 servicesMap, hashSeed, preparedDescriptorWrites>>
  /\ UNCHANGED advVars

\* didReceiveWrite, second loop, the response and the event
IosWriteApply ==
  /\ platform = "ios"
  /\ inflight.pc = "collected"
  /\ values' = IosApply(values, inflight.chars)
  /\ last' = [Req("write", 0, inflight.requests[1].char, "success", Nil)
                EXCEPT !.batch = inflight.requests,
                       !.applied = inflight.chars,
                       !.events = IosWrittenEvents("success", inflight.chars)]
  /\ inflight' = Idle
  /\ UNCHANGED <<uuid, preparedCharacteristicWrites, added, evicted, stagedBy,
                 servicesMap, hashSeed, preparedDescriptorWrites>>
  /\ UNCHANGED advVars

RaceValues == {<<>>, <<2>>, <<2, 2>>}

InitRace ==
  /\ platform \in {"android", "ios"}
  /\ Serving
  /\ values \in [Chars -> {<<1>>, <<1, 1>>}]
  /\ uuid = DistinctUuids
  /\ preparedCharacteristicWrites = <<>>
  /\ added = <<>>
  /\ evicted = {}
  /\ stagedBy = <<>>
  /\ servicesMap = OneService
  /\ hashSeed = <<"s1", "s2">>
  /\ inflight = Idle
  /\ preparedDescriptorWrites = <<>>
  /\ last = Req("init", 0, "", "", Nil)

NextRace ==
  \/ \E c \in Chars, offset \in 0..MaxLen : AndroidWriteCheck(1, c, offset, <<1>>)
  \/ AndroidWriteSlice
  \/ AndroidWriteSet
  \/ \E c \in Chars, offset \in 0..MaxLen :
       IosWriteCollect(<<[char |-> c, offset |-> offset, value |-> <<1>>]>>)
  \/ IosWriteApply
  \/ \E c \in Chars, value \in RaceValues :
       AndroidUpdateCharacteristic("s1", c, value, TRUE, <<>>, <<>>)
  \/ \E c \in Chars, value \in RaceValues : IosUpdateCharacteristic("s1", c, value, TRUE)

SpecRace == InitRace /\ [][NextRace]_vars

\* C24: a plain write that completes while updateCharacteristic runs on the
\* other thread takes effect on the value stored at that moment: it is
\* accepted exactly when its offset is within that value, the value it
\* stores is that value cut at the offset followed by the written bytes, and
\* a rejected write stores nothing.
C24_WriteAtomicWithUpdate ==
  [][last'.op = "write" =>
       LET req == last'.batch[1]
           v == values[req.char]
       IN IF req.offset <= Len(v)
          THEN /\ last'.result \in Success
               /\ values' = [values EXCEPT ![req.char] = Splice(v, req.offset, req.value)]
          ELSE /\ last'.result \in InvalidOffset
               /\ values' = values]_vars

(***************************************************************************)
(* SpecStore: the service store functions and the lookups by uuid          *)
(***************************************************************************)
InitStore ==
  /\ platform \in {"android", "ios"}
  /\ AdvIdle \/ Serving
  /\ values = <<>>
  /\ uuid = <<>>
  /\ preparedCharacteristicWrites = <<>>
  /\ added = <<>>
  /\ evicted = {}
  /\ stagedBy = <<>>
  /\ servicesMap = <<>>
  /\ hashSeed \in (IF platform = "ios" THEN Orders(ServiceUuids) ELSE {<<"s1", "s2">>})
  /\ inflight = Idle
  /\ preparedDescriptorWrites = <<>>
  /\ last = Req("init", 0, "", "", Nil)

NextStore ==
  \/ \E u \in ServiceUuids : AndroidAddService(u, TRUE)
  \/ \E u \in ServiceUuids, listed \in BOOLEAN : IosAddService(u, TRUE, listed)
  \/ \E u \in ServiceUuids : RemoveService(u)
  \/ RemoveAllServices
  \/ \E serviceUuid \in ServiceUuids, u \in Chars, c \in CharObjects :
       AndroidAddCharacteristic(serviceUuid, u, <<1>>, c)
  \/ \E serviceUuid \in ServiceUuids, u \in Chars, c \in CharObjects :
       IosAddCharacteristic(serviceUuid, u, <<1>>, c)
  \/ \E serviceUuid \in ServiceUuids \cup {""} : AndroidGetCharacteristics(serviceUuid)
  \/ \E serviceUuid \in ServiceUuids \cup {""} : IosGetCharacteristics(serviceUuid)
  \/ \E u \in Chars : IosReadRequest(GetCharacteristic(hashSeed, servicesMap, uuid, u), 0)
  \/ \E u \in Chars :
       IosWriteRequests(<<[char |-> GetCharacteristic(hashSeed, servicesMap, uuid, u),
                           offset |-> 0, value |-> <<2>>]>>)

SpecStore == InitStore /\ [][NextStore]_vars

\* C25: addService with a uuid the store holds fails with the duplicate
\* error, changes nothing in the store and makes no call on the platform;
\* with a new uuid it adds that service, empty, and leaves the others alone.
C25_AddServiceDuplicate ==
  [][last'.op = "addService" =>
       IF last'.service \in DOMAIN servicesMap
       THEN /\ last'.result = "Service already added"
            /\ servicesMap' = servicesMap
            /\ values' = values
            /\ uuid' = uuid
            /\ last'.native = <<>>
       ELSE /\ last'.result = "ok"
            /\ DOMAIN servicesMap' = DOMAIN servicesMap \cup {last'.service}
            /\ \A k \in DOMAIN servicesMap : servicesMap'[k] = servicesMap[k]
            /\ Characteristics(servicesMap'[last'.service]) = <<>>
            /\ values' = values
            /\ uuid' = uuid]_vars

C25_Witness ==
  /\ last.op = "addService"
  /\ last.result = "Service already added"
  /\ Characteristics(servicesMap[last.service]) # <<>>

\* C26: addCharacteristic on a service of the store succeeds and appends the
\* new characteristic, with its uuid and value, after the characteristics the
\* service had; on an absent service it fails with the not-found error and
\* changes nothing.
C26_AddCharacteristicAppends ==
  [][last'.op = "addCharacteristic" =>
       IF last'.service \in DOMAIN servicesMap
       THEN /\ last'.result = "ok"
            /\ DOMAIN servicesMap' = DOMAIN servicesMap
            /\ Characteristics(servicesMap'[last'.service]) =
                 Append(Characteristics(servicesMap[last'.service]), last'.char)
            /\ \A k \in DOMAIN servicesMap \ {last'.service} :
                 servicesMap'[k] = servicesMap[k]
       ELSE /\ last'.result = "Service not found"
            /\ servicesMap' = servicesMap
            /\ values' = values
            /\ uuid' = uuid]_vars

\* C27: removeService on a uuid of the store succeeds and removes that
\* service and no other; on an absent uuid it fails with the not-found error
\* and changes nothing.
C27_RemoveServiceExact ==
  [][last'.op = "removeService" =>
       IF last'.service \in DOMAIN servicesMap
       THEN /\ last'.result = "ok"
            /\ DOMAIN servicesMap' = DOMAIN servicesMap \ {last'.service}
            /\ \A k \in DOMAIN servicesMap' : servicesMap'[k] = servicesMap[k]
            /\ \A c \in Held(servicesMap') : values'[c] = values[c] /\ uuid'[c] = uuid[c]
       ELSE /\ last'.result = "Service not found"
            /\ servicesMap' = servicesMap
            /\ values' = values
            /\ uuid' = uuid]_vars

C27_Witness ==
  /\ last.op = "removeService"
  /\ last.result = "ok"
  /\ Held(servicesMap) # {}

\* C28: removeAllServices succeeds from every store, the empty one included,
\* and leaves the store empty.
C28_RemoveAllIdempotent ==
  [][last'.op = "removeAllServices" =>
       /\ last'.result = "ok"
       /\ servicesMap' = <<>>
       /\ values' = <<>>
       /\ uuid' = <<>>]_vars

C28_Witness ==
  /\ last.op = "removeAllServices"
  /\ last.result = "ok"
  /\ servicesMap = <<>>
  /\ last.native # <<>>

\* C29: the characteristic a peer read or write was resolved to is the one
\* its uuid resolves to under every iteration order of the services.
C29_LookupDeterministic ==
  (platform = "ios" /\ last.op \in {"read", "write"} /\ last.char \in DOMAIN uuid) =>
     \A seed \in Orders(ServiceUuids) :
       GetCharacteristic(seed, servicesMap, uuid, uuid[last.char]) = last.char

\* C30: getCharacteristics with a service uuid answers the characteristics of
\* that service, in order; without one it answers every characteristic of
\* every service, each once.
C30_GetCharacteristics ==
  last.op = "getCharacteristics" =>
     IF last.service = ""
     THEN /\ last.result = "ok"
          /\ {last.returned[i] : i \in DOMAIN last.returned} = Held(servicesMap)
          /\ Len(last.returned) = Cardinality(Held(servicesMap))
     ELSE IF last.service \in DOMAIN servicesMap
     THEN /\ last.result = "ok"
          /\ last.returned = Characteristics(servicesMap[last.service])
     ELSE last.result = "Service not found"

====
